---- MODULE Spec2Model ----
(***************************************************************************)
(* Gateway core: provider pool and scheduler, session matcher and request  *)
(* executor, over the persistent store (providers and sessions tables).    *)
(* Every await of the handlers is one step, so concurrent requests         *)
(* interleave exactly where the event loop lets them.                      *)
(***************************************************************************)
EXTENDS Integers, Sequences, FiniteSets, TLC

VARIABLES providers, sessions, nextSessionId, calls, now, faults,
          upstream, wire, delivered, parser,
          sse, sink,
          matcher, retry, http, apiKeys, client, checker

\* the store, the executor calls and the clock
execVars == <<providers, sessions, nextSessionId, calls, now, faults>>
\* one upstream stream and the parser reading it
streamVars == <<upstream, wire, delivered, parser>>

\* one streamGenerateContent call and the caller's sink
emitVars == <<sse, sink>>
\* two matchOrCreate calls in a row, one executeWithRetry call, one HTTP request
\* and the api_keys table
auxVars == <<matcher, retry, http, apiKeys, client, checker>>
\* what the store, the executor calls and the clock leave alone
restVars == <<streamVars, emitVars, auxVars>>

vars == <<execVars, streamVars, emitVars, auxVars>>

(***************************************************************************)
(* Bounds of the model.                                                    *)
(***************************************************************************)
\* executor calls of the general specification (call slots 1..MaxCalls run)
MaxCalls == 2
\* executor calls of the scheduler specification
MaxSchedCalls == 3
\* statements of the persistent store that may throw in one behaviour
MaxFaults == 2
\* the clock stops advancing here
MaxTime == 1
\* objects in one upstream stream
MaxObjects == 2
\* objects the upstream delivers to one streaming call
MaxDeliveries == 2
\* chunk boundaries inside one stream (or a boundary after every byte)
MaxCuts == 2

(***************************************************************************)
(* Configuration (src/src/core/gemini-client.js:619-632, read from the     *)
(* environment).  The clock unit is one cooldown period (5 min by default).*)
(***************************************************************************)
\* config.provider.healthThreshold
HealthThreshold == 50
\* config.provider.failureThreshold: PROVIDER_FAILURE_THRESHOLD=1
FailureThreshold == 1
\* config.provider.cooldownDuration, in clock units
CooldownDuration == 1
\* config.session.ttl, in clock units (1 h / 5 min)
SessionTtl == 12
\* config.session.maxPerUser: MAX_SESSIONS_PER_USER=2
MaxPerUser == 2
\* executeWithRetry: maxRetries = 3
MaxRetries == 3

Min(a, b) == IF a < b THEN a ELSE b
Max(a, b) == IF a > b THEN a ELSE b

\* the ids of the rows of the providers table
Providers == DOMAIN providers
CallIds == 1 .. Max(MaxCalls, MaxSchedCalls)
Users == {1}
NULL == 0


(***************************************************************************)
(* utils/hash.js                                                           *)
(***************************************************************************)
\* Array.prototype.join: the texts (token sequences) with sep between them
RECURSIVE Join(_, _)
Join(texts, sep) ==
  IF Len(texts) = 0 THEN <<>>
  ELSE IF Len(texts) = 1 THEN texts[1]
  ELSE texts[1] \o <<sep>> \o Join(Tail(texts), sep)

\* md5 as a collision-free digest of the text it is given
md5(text) == <<"md5", text>>

\* a part is the text it carries, "" for a part without text
extractTextFromParts(parts) ==
  LET withText == SelectSeq(parts, LAMBDA p : p # "")
  IN  Join([i \in 1 .. Len(withText) |-> <<withText[i]>>], "\n")

\* rnd stands for randomString(32)
generateSessionHashes(messages, rnd) ==
  LET userMessages == SelectSeq(messages, LAMBDA m : m.role = "user")
      n == Len(userMessages)
      texts(ms) == [i \in 1 .. Len(ms) |-> extractTextFromParts(ms[i].parts)]
      headMessages == SubSeq(userMessages, 1, Min(5, n))
      tailMessages == SubSeq(userMessages, Max(1, n - 4), n)
  IN  IF Len(messages) = 0 \/ n = 0
      THEN [headHash |-> md5(<<rnd>>), tailHash |-> md5(<<rnd>>)]
      ELSE [headHash |-> md5(Join(texts(headMessages), "|||")),
            tailHash |-> md5(Join(texts(tailMessages), "|||"))]

(***************************************************************************)
(* Request bodies the callers send.                                        *)
(***************************************************************************)
UserMsg(t) == [role |-> "user", parts |-> <<t>>]
ModelMsg(t) == [role |-> "model", parts |-> <<t>>]

\* scenario 1: a fresh conversation
ConvHello == <<UserMsg("Hello")>>
\* scenario 2: the same conversation extended by the answer and a follow up
ConvFollowUp == <<UserMsg("Hello"), ModelMsg("answer"), UserMsg("follow up")>>

\* an earlier conversation of the same user
ConvOther == <<UserMsg("Other")>>

Conversations == {ConvHello, ConvFollowUp}

\* a body without contents: the marker stands for contents === undefined
Undefined == <<[role |-> "undefined", parts |-> <<>>]>>

\* the bodies of the general specification
Requests == Conversations \cup {Undefined}

(***************************************************************************)
(* The persistent store.                                                   *)
(***************************************************************************)
\* a providers row as the schema creates it (status active, health 100)
NewProvider(maxConcurrent) ==
  [status |-> "active", health_score |-> 100, current_load |-> 0,
   max_concurrent |-> maxConcurrent, consecutive_failures |-> 0,
   total_requests |-> 0, failed_requests |-> 0, cooldown_until |-> NULL]

\* gemini_session_id IS NULL
NoGeminiSession == <<>>

\* the rows of table among ids with the latest last_accessed_at
\* (ORDER BY last_accessed_at DESC LIMIT 1; rows of one timestamp come in any order)
MostRecent(table, ids) ==
  {id \in ids : \A o \in ids : table[o].last_accessed_at <= table[id].last_accessed_at}

\* the rows of table among ids with the oldest last_accessed_at
\* (ORDER BY last_accessed_at ASC LIMIT 1)
Oldest(table, ids) ==
  {id \in ids : \A o \in ids : table[id].last_accessed_at <= table[o].last_accessed_at}

(***************************************************************************)
(* models/provider.js                                                      *)
(***************************************************************************)
\* the WHERE clause without its test of status
getAvailableProvidersAnyStatus ==
  {p \in Providers : /\ providers[p].health_score >= HealthThreshold
                     /\ providers[p].current_load < providers[p].max_concurrent}

\* WHERE status = 'active' AND health_score >= ? AND current_load < max_concurrent
getAvailableProviders ==
  {p \in Providers : /\ providers[p].status = "active"
                     /\ providers[p].health_score >= HealthThreshold
                     /\ providers[p].current_load < providers[p].max_concurrent}

\* ORDER BY health_score DESC, (current_load / max_concurrent) ASC: the rows that
\* may come first
FirstRows(cands) ==
  {p \in cands : \A q \in cands :
     \/ providers[q].health_score < providers[p].health_score
     \/ /\ providers[q].health_score = providers[p].health_score
        /\ providers[p].current_load * providers[q].max_concurrent
             <= providers[q].current_load * providers[p].max_concurrent}

\* weight = health_score * (1 - current_load / max_concurrent), scaled by max_concurrent
Weight(p) ==
  providers[p].health_score * (providers[p].max_concurrent - providers[p].current_load)

\* the rows weightedRandom can return: a row of positive weight, or the first row
weightedRandom(cands) == {p \in cands : Weight(p) > 0} \cup FirstRows(cands)

incrementLoad(row) == [row EXCEPT !.current_load = @ + 1]

\* GREATEST(0, current_load - 1)
decrementLoad(row) == [row EXCEPT !.current_load = Max(0, @ - 1)]

\* LEAST(100, health_score + 1)
recordSuccess(row) ==
  [row EXCEPT !.consecutive_failures = 0,
              !.health_score = Min(100, @ + 1),
              !.total_requests = @ + 1]

\* the updates recordFailure computes from the row it read (provider) at time t
\* when config.provider.failureThreshold is threshold
FailureUpdatesAt(provider, t, threshold) ==
  LET failures == provider.consecutive_failures + 1
      newStatus == IF failures >= threshold * 2 THEN "failed"
                   ELSE IF failures >= threshold THEN "cooling"
                   ELSE provider.status
  IN  [consecutive_failures |-> failures,
       health_score |-> Max(0, provider.health_score - 10),
       failed_requests |-> provider.failed_requests + 1,
       total_requests |-> provider.total_requests + 1,
       status |-> newStatus,
       setCooldown |-> failures >= threshold,
       cooldown_until |-> t + CooldownDuration]

\* recordFailure with its thresholds compared by > where the code has >=
FailureUpdatesStrict(provider, t) ==
  LET failures == provider.consecutive_failures + 1
      newStatus == IF failures > FailureThreshold * 2 THEN "failed"
                   ELSE IF failures > FailureThreshold THEN "cooling"
                   ELSE provider.status
  IN  [consecutive_failures |-> failures,
       health_score |-> Max(0, provider.health_score - 10),
       failed_requests |-> provider.failed_requests + 1,
       total_requests |-> provider.total_requests + 1,
       status |-> newStatus,
       setCooldown |-> failures > FailureThreshold,
       cooldown_until |-> t + CooldownDuration]

\* the same with the failure threshold of the executor specifications
FailureUpdates(provider, t) == FailureUpdatesAt(provider, t, FailureThreshold)

\* this.update(id, updates): the columns named overwrite the current row
ApplyFailureUpdates(row, u) ==
  [row EXCEPT !.consecutive_failures = u.consecutive_failures,
              !.health_score = u.health_score,
              !.failed_requests = u.failed_requests,
              !.total_requests = u.total_requests,
              !.status = u.status,
              !.cooldown_until = IF u.setCooldown THEN u.cooldown_until ELSE @]

\* the WHERE clause without its test of cooldown_until
CoolingDueAnyTime(row, t) == row.status = "cooling"

\* WHERE status = 'cooling' AND cooldown_until <= NOW()
CoolingDue(row, t) ==
  row.status = "cooling" /\ row.cooldown_until # NULL /\ row.cooldown_until <= t

recoverCoolingProviders(row, t) ==
  IF CoolingDue(row, t)
  THEN [row EXCEPT !.status = "active", !.consecutive_failures = 0, !.health_score = 50]
  ELSE row

(***************************************************************************)
(* core/gemini-client.js, curlStreamRequest: the incremental parser of the *)
(* upstream's stream.  A byte is a one-character string, or "C3" / "A9",   *)
(* the two bytes of one character outside ASCII; a character is a          *)
(* one-character string, "U+00E9" or the replacement character "U+FFFD".   *)
(***************************************************************************)
\* data.toString(): UTF-8 decoding of one chunk on its own
RECURSIVE toString(_)
toString(bytes) ==
  IF bytes = <<>> THEN <<>>
  ELSE IF bytes[1] = "C3" /\ Len(bytes) >= 2 /\ bytes[2] = "A9"
       THEN <<"U+00E9">> \o toString(SubSeq(bytes, 3, Len(bytes)))
  ELSE IF bytes[1] \in {"C3", "A9"}
       THEN <<"U+FFFD">> \o toString(Tail(bytes))
  ELSE <<bytes[1]>> \o toString(Tail(bytes))

\* the closure variables of curlStreamRequest, its promise (closed: settled,
\* rejected: settled by reject), and the curl process: the exit code it ends
\* with and the HTTP status of the response it prints the body of
ParserInit ==
  [buffer |-> <<>>, chunks |-> <<>>, inArray |-> FALSE, braceDepth |-> 0,
   currentObject |-> <<>>, inString |-> FALSE, escapeNext |-> FALSE, closed |-> FALSE,
   rejected |-> FALSE, code |-> 0, status |-> 200]

\* what is left open after reading text from the state st:
\* [depth, inString, escapeNext, ok]
RECURSIVE Scan(_, _)
Scan(text, st) ==
  IF text = <<>> \/ ~st.ok THEN st
  ELSE LET ch == text[1]
           nxt == IF st.escapeNext THEN [st EXCEPT !.escapeNext = FALSE]
                  ELSE IF st.inString
                       THEN IF ch = "\\" THEN [st EXCEPT !.escapeNext = TRUE]
                            ELSE IF ch = "\"" THEN [st EXCEPT !.inString = FALSE]
                            ELSE st
                  ELSE IF ch = "\"" THEN [st EXCEPT !.inString = TRUE]
                  ELSE IF ch \in {"{", "["} THEN [st EXCEPT !.depth = @ + 1]
                  ELSE IF ch \in {"}", "]"}
                       THEN [st EXCEPT !.depth = @ - 1, !.ok = st.depth > 0]
                  ELSE st
       IN  Scan(Tail(text), nxt)

\* JSON.parse(text) returns: the text is one closed value
Parses(text) ==
  LET end == Scan(text, [depth |-> 0, inString |-> FALSE, escapeNext |-> FALSE,
                         ok |-> TRUE])
  IN  text # <<>> /\ end.ok /\ end.depth = 0 /\ ~end.inString

\* JSON.parse(text), for a text it accepts
JSONparse(text) == <<"json", text>>

\* the same with currentObject = '' inside the try block
PushedKeepsFailed(ps) ==
  IF Parses(ps.currentObject)
  THEN [ps EXCEPT !.chunks = Append(@, JSONparse(ps.currentObject)), !.currentObject = <<>>]
  ELSE ps

\* try { chunks.push(JSON.parse(currentObject)) } catch { }; currentObject = ''
Pushed(ps) ==
  [ps EXCEPT !.chunks = IF Parses(ps.currentObject)
                        THEN Append(@, JSONparse(ps.currentObject)) ELSE @,
             !.currentObject = <<>>]

\* the loop body without its escape branches: a backslash is an ordinary character
ConsumeNoEscape(ps, char) ==
  LET kept == [ps EXCEPT !.currentObject = Append(@, char)]
  IN  IF char = "\"" /\ ps.braceDepth > 0 THEN [kept EXCEPT !.inString = ~ps.inString]
      ELSE IF ps.inString THEN kept
      ELSE IF char = "[" /\ ~ps.inArray /\ ps.braceDepth = 0
           THEN [ps EXCEPT !.inArray = TRUE]
      ELSE IF ps.braceDepth = 0 /\ char \in {",", "\r", "\n", " "} THEN ps
      ELSE IF char = "{" THEN [kept EXCEPT !.braceDepth = @ + 1]
      ELSE IF char = "}"
           THEN LET closed == [kept EXCEPT !.braceDepth = @ - 1]
                IN  IF closed.braceDepth = 0 THEN Pushed(closed) ELSE closed
      ELSE IF ps.braceDepth > 0 THEN kept
      ELSE ps

\* the body of the while loop for one character that does not end the loop
Consume(ps, char) ==
  LET kept == [ps EXCEPT !.currentObject = Append(@, char)]
  IN  IF ps.escapeNext
      THEN IF ps.braceDepth > 0 THEN [kept EXCEPT !.escapeNext = FALSE]
           ELSE [ps EXCEPT !.escapeNext = FALSE]
      ELSE IF char = "\\" /\ ps.inString
           THEN IF ps.braceDepth > 0 THEN [kept EXCEPT !.escapeNext = TRUE]
                ELSE [ps EXCEPT !.escapeNext = TRUE]
      ELSE IF char = "\"" /\ ps.braceDepth > 0 THEN [kept EXCEPT !.inString = ~ps.inString]
      ELSE IF ps.inString THEN kept
      ELSE IF char = "[" /\ ~ps.inArray /\ ps.braceDepth = 0
           THEN [ps EXCEPT !.inArray = TRUE]
      ELSE IF ps.braceDepth = 0 /\ char \in {",", "\r", "\n", " "} THEN ps
      ELSE IF char = "{" THEN [kept EXCEPT !.braceDepth = @ + 1]
      ELSE IF char = "}"
           THEN LET closed == [kept EXCEPT !.braceDepth = @ - 1]
                IN  IF closed.braceDepth = 0 THEN Pushed(closed) ELSE closed
      ELSE IF ps.braceDepth > 0 THEN kept
      ELSE ps

\* if (char === ']' && inArray && braceDepth === 0) break
EndsLoop(ps, char) ==
  /\ ~ps.escapeNext
  /\ ~ps.inString
  /\ char = "]" /\ ps.inArray /\ ps.braceDepth = 0

\* while (buffer.length > 0) { char = buffer[0]; buffer = buffer.slice(1); ... }
RECURSIVE Drain(_)
Drain(ps) ==
  IF ps.buffer = <<>> THEN ps
  ELSE LET char == ps.buffer[1]
           rest == [ps EXCEPT !.buffer = Tail(@)]
       IN  IF EndsLoop(rest, char) THEN rest ELSE Drain(Consume(rest, char))

\* curl.stdout.on('data'): buffer += data.toString(), then the loop
onData(ps, data) == Drain([ps EXCEPT !.buffer = @ \o toString(data)])

\* curl.on('close'): reject for a code other than 0; with code 0 a remaining
\* currentObject is parsed if it can be, and the promise resolves
onClose(ps) ==
  IF ps.code # 0
  THEN [ps EXCEPT !.closed = TRUE, !.rejected = TRUE]
  ELSE [(IF ps.currentObject # <<>> /\ Parses(ps.currentObject)
         THEN [ps EXCEPT !.chunks = Append(@, JSONparse(ps.currentObject))]
         ELSE ps) EXCEPT !.closed = TRUE]

\* curl.on('error'): reject
onError(ps) == [ps EXCEPT !.closed = TRUE, !.rejected = TRUE]

(***************************************************************************)
(* core/request-executor.js, streamGenerateContent steps 4 to 7, and       *)
(* core/gemini-client.js, _extractAndPushContent: what reaches the         *)
(* caller's sink.  An upstream object is its streamAssistResponse answer's *)
(* replies (texts with the thought flag), or NoAnswer.                     *)
(***************************************************************************)
\* finishReason is the string "STOP" or "null", JSON's null

\* an object without streamAssistResponse or without answer
NoAnswer == [replies |-> <<>>, answer |-> FALSE]

Answer(replies) == [replies |-> replies, answer |-> TRUE]

Reply(text, thought) == [text |-> text, thought |-> thought]

\* no streaming call
NoStream ==
  [pc |-> "none", objects |-> <<>>, delivered |-> 0, includeThoughts |-> FALSE,
   wantsImage |-> FALSE, fullContent |-> <<>>, thoughtContent |-> <<>>,
   sessionId |-> 0, connected |-> TRUE]

\* _extractAndPushContent walking the replies from the last to the first
extractAndPushContentBackwards(parsed) ==
  IF ~parsed.answer THEN <<>>
  ELSE LET kept == SelectSeq(parsed.replies, LAMBDA r : r.text # "")
       IN  [i \in 1 .. Len(kept) |-> kept[Len(kept) + 1 - i]]

\* _extractAndPushContent: the chunks pushed for one parsed object, a reply
\* with empty text is skipped
extractAndPushContent(parsed) ==
  IF ~parsed.answer THEN <<>>
  ELSE SelectSeq(parsed.replies, LAMBDA r : r.text # "")

\* streamChunkHandler: the public chunk written for one pushed chunk, if any
streamChunkHandler(chunk, includeThoughts) ==
  IF chunk.thought /\ includeThoughts
  THEN <<[kind |-> "chunk", thought |-> TRUE, text |-> chunk.text, finishReason |-> "null"]>>
  ELSE IF ~chunk.thought /\ chunk.text # ""
  THEN <<[kind |-> "chunk", thought |-> FALSE, text |-> chunk.text, finishReason |-> "null"]>>
  ELSE <<>>

\* the public chunks written for a sequence of pushed chunks
RECURSIVE Handled(_, _)
Handled(pushed, includeThoughts) ==
  IF pushed = <<>> THEN <<>>
  ELSE streamChunkHandler(pushed[1], includeThoughts)
         \o Handled(Tail(pushed), includeThoughts)

\* the synthetic final chunk with its usage block
FinalChunk(call) ==
  [kind |-> "final", thought |-> FALSE, text |-> "", finishReason |-> "STOP",
   usageMetadata |-> <<call.fullContent, call.thoughtContent>>]

\* the inline image chunk
ImageChunk ==
  [kind |-> "image", thought |-> FALSE, text |-> "", finishReason |-> "STOP"]

\* onDone: data: [DONE]
DoneMark == [kind |-> "done", thought |-> FALSE, text |-> "", finishReason |-> "null"]

\* the upstream delivers its next object: every reply goes through the handler
Deliver ==
  /\ sse.pc = "stream"
  /\ sse.delivered < Len(sse.objects)
  /\ LET out == Handled(extractAndPushContent(sse.objects[sse.delivered + 1]),
                        sse.includeThoughts)
         texts(t) == [i \in 1 .. Len(SelectSeq(out, LAMBDA o : o.thought = t)) |->
                        SelectSeq(out, LAMBDA o : o.thought = t)[i].text]
     IN  /\ sink' = sink \o out
         /\ sse' = [sse EXCEPT !.delivered = @ + 1,
                               !.fullContent = @ \o texts(FALSE),
                               !.thoughtContent = @ \o texts(TRUE)]
  /\ UNCHANGED <<auxVars, execVars, streamVars>>

\* sendMessageStream resolves: the final chunk is written
StreamEnd ==
  /\ sse.pc = "stream"
  /\ sse.delivered = Len(sse.objects)
  /\ sink' = Append(sink, FinalChunk(sse))
  /\ sse' = [sse EXCEPT !.pc = IF sse.wantsImage THEN "image" ELSE "finish"]
  /\ UNCHANGED <<auxVars, execVars, streamVars>>

\* sendMessageStream rejects (curl exits with an error): catch, throw
StreamFail ==
  /\ sse.pc = "stream"
  /\ sse' = [sse EXCEPT !.pc = "failed"]
  /\ UNCHANGED <<auxVars, execVars, streamVars, sink>>

\* _delay, _fetchImage: an image is written if one was fetched
Image ==
  /\ sse.pc = "image"
  /\ sse' = [sse EXCEPT !.pc = "finish"]
  /\ \/ sink' = Append(sink, ImageChunk)
     \/ sink' = sink
  /\ UNCHANGED <<auxVars, execVars, streamVars>>

(***************************************************************************)
(* core/request-executor.js: generateContent and streamGenerateContent.    *)
(* Both run the same steps against the scheduler, the matcher and the      *)
(* store; a call record holds the locals of one invocation.                *)
(***************************************************************************)
NoRow == [id |-> NULL]

IdleCall ==
  [pc |-> "idle", userId |-> NULL, contents |-> <<>>, selected |-> NULL,
   providerId |-> NULL, sessionId |-> NULL, session |-> NoRow, matchType |-> "none",
   geminiSessionId |-> NoGeminiSession, provider |-> NoRow, readAt |-> NULL,
   acquired |-> 0, released |-> 0, outcome |-> "none",
   successes |-> 0, failures |-> 0, errorLogs |-> 0,
   alone |-> TRUE, preLoad |-> <<>>]

\* the call slots that never run under a specification are off
OffCall == [IdleCall EXCEPT !.pc = "off"]

InFlight(c) == calls[c].pc \notin {"idle", "off", "done"}

\* inside the try block: an exception is caught by the catch block
TryPcs == {"select", "increment", "exact", "head", "updateTail", "count", "evict",
           "insert", "createSession", "updateGeminiSession", "sendMessage",
           "recordMessage", "release", "recordSuccess", "log"}
\* inside the catch block: an exception leaves the function
CatchPcs == {"catchRelease", "catchFind", "catchUpdate", "catchLog"}
\* the steps that are statements of the persistent store
StorePcs == (TryPcs \ {"createSession", "sendMessage"}) \cup CatchPcs

\* catch (error): if (providerId) release and record the failure, then log
Caught(call) ==
  [call EXCEPT !.pc = IF call.providerId # NULL THEN "catchRelease" ELSE "catchLog",
               !.selected = NULL, !.session = NoRow]

\* the call is over: its locals are gone; the counts of its acquires and
\* releases, of the successes and failures it recorded and of the request-log
\* rows of status 500 it wrote stay
Finished(call, outcome) ==
  [IdleCall EXCEPT !.pc = "done", !.outcome = outcome,
                   !.acquired = call.acquired, !.released = call.released,
                   !.successes = call.successes,
                   !.failures = call.failures, !.errorLogs = call.errorLogs]

Hashes(c) == generateSessionHashes(calls[c].contents, c)

\* a request arrives: the route handler calls the executor.  alone and preLoad
\* remember, while no other call has been in flight, the loads before the call
Start(c, conversations) ==
  /\ calls[c].pc = "idle"
  /\ \E u \in Users, m \in conversations :
       calls' = [d \in CallIds |->
         IF d = c
         THEN IF \A o \in CallIds \ {c} : ~InFlight(o)
              THEN [calls[c] EXCEPT !.pc = "select", !.userId = u, !.contents = m,
                      !.preLoad = [p \in Providers |-> providers[p].current_load]]
              ELSE [calls[c] EXCEPT !.pc = "select", !.userId = u, !.contents = m,
                      !.alone = FALSE]
         ELSE IF InFlight(d) THEN [calls[d] EXCEPT !.alone = FALSE, !.preLoad = <<>>]
         ELSE calls[d]]
  /\ UNCHANGED <<restVars, providers, sessions, nextSessionId, now, faults>>

\* selectProvider: the query, then the weighted choice among its rows
Select(c) ==
  /\ calls[c].pc = "select"
  /\ IF getAvailableProviders = {}
     THEN calls' = [calls EXCEPT ![c] = Caught(@)]
     ELSE \E p \in weightedRandom(getAvailableProviders) :
            calls' = [calls EXCEPT ![c].pc = "increment", ![c].selected = p]
  /\ UNCHANGED <<restVars, providers, sessions, nextSessionId, now, faults>>

\* acquireProvider: await Provider.incrementLoad(provider.id)
Increment(c) ==
  /\ calls[c].pc = "increment"
  /\ providers' = [providers EXCEPT ![calls[c].selected] = incrementLoad(@)]
  /\ calls' = [calls EXCEPT ![c].pc = "exact", ![c].providerId = calls[c].selected,
                            ![c].selected = NULL, ![c].acquired = @ + 1]
  /\ UNCHANGED <<restVars, sessions, nextSessionId, now, faults>>

(***************************************************************************)
(* core/session-matcher.js and models/session.js, over a sessions table.   *)
(***************************************************************************)
\* JOIN providers p ... AND s.status = 'active' AND p.status = 'active'
Usable(table, id) ==
  table[id].status = "active" /\ providers[table[id].provider_id].status = "active"

\* findMatchingSession, first query
ExactMatches(table, userId, h) ==
  {id \in DOMAIN table : /\ Usable(table, id)
                         /\ table[id].user_id = userId
                         /\ table[id].context_hash_head = h.headHash
                         /\ table[id].context_hash_tail = h.tailHash}

\* findMatchingSession, second query
HeadMatches(table, userId, h) ==
  {id \in DOMAIN table : /\ Usable(table, id)
                         /\ table[id].user_id = userId
                         /\ table[id].context_hash_head = h.headHash}

\* this.update(session.id, {context_hash_tail, last_accessed_at})
TailUpdatedAccessOnly(table, id, tailHash, t) ==
  IF id \in DOMAIN table
  THEN [table EXCEPT ![id].last_accessed_at = t]
  ELSE table

TailUpdated(table, id, tailHash, t) ==
  IF id \in DOMAIN table
  THEN [table EXCEPT ![id].context_hash_tail = tailHash, ![id].last_accessed_at = t]
  ELSE table

\* this.count({user_id, status: 'active'})
UserActive(table, userId) ==
  {id \in DOMAIN table : table[id].status = "active" /\ table[id].user_id = userId}

AtCap(table, userId) == Cardinality(UserActive(table, userId)) >= MaxPerUser

\* DELETE FROM sessions WHERE id = ...
Deleted(table, id) == [o \in DOMAIN table \ {id} |-> table[o]]

\* the row createSession inserts
NewSessionHeadTwice(id, providerId, userId, h, t) ==
  [id |-> id, provider_id |-> providerId, user_id |-> userId,
   context_hash_head |-> h.headHash, context_hash_tail |-> h.headHash,
   gemini_session_id |-> NoGeminiSession, message_count |-> 0, status |-> "active",
   expires_at |-> t + SessionTtl, last_accessed_at |-> t]

NewSession(id, providerId, userId, h, t) ==
  [id |-> id, provider_id |-> providerId, user_id |-> userId,
   context_hash_head |-> h.headHash, context_hash_tail |-> h.tailHash,
   gemini_session_id |-> NoGeminiSession, message_count |-> 0, status |-> "active",
   expires_at |-> t + SessionTtl, last_accessed_at |-> t]

Inserted(table, row) ==
  [id \in DOMAIN table \cup {row.id} |-> IF id = row.id THEN row ELSE table[id]]

\* Session.updateGeminiSessionId(id, geminiSessionId)
updateGeminiSessionId(table, id, geminiSessionId, t) ==
  IF id \in DOMAIN table
  THEN [table EXCEPT ![id].gemini_session_id = geminiSessionId, ![id].last_accessed_at = t]
  ELSE table

\* Session.incrementMessageCount(id)
incrementMessageCount(table, id, t) ==
  IF id \in DOMAIN table
  THEN [table EXCEPT ![id].message_count = @ + 1, ![id].last_accessed_at = t,
                     ![id].expires_at = t + SessionTtl]
  ELSE table

\* the executor's use of the session matchOrCreate returned
WithSession(call, row, matchType) ==
  [call EXCEPT !.session = row, !.sessionId = row.id, !.matchType = matchType,
               !.geminiSessionId = row.gemini_session_id,
               !.pc = IF row.gemini_session_id = NoGeminiSession
                      THEN "createSession" ELSE "sendMessage"]

\* matchOrCreate: messages.length of the debug line throws for contents undefined;
\* findMatchingSession, first query
ExactQuery(c) ==
  /\ calls[c].pc = "exact"
  /\ LET found == ExactMatches(sessions, calls[c].userId, Hashes(c))
     IN  IF calls[c].contents = Undefined
         THEN calls' = [calls EXCEPT ![c] = Caught(@)]
         ELSE IF found = {}
         THEN calls' = [calls EXCEPT ![c].pc = "head"]
         ELSE \E id \in MostRecent(sessions, found) :
                calls' = [calls EXCEPT ![c] = WithSession(@, sessions[id], "exact")]
  /\ UNCHANGED <<restVars, providers, sessions, nextSessionId, now, faults>>

\* findMatchingSession, second query
HeadQuery(c) ==
  /\ calls[c].pc = "head"
  /\ LET found == HeadMatches(sessions, calls[c].userId, Hashes(c))
     IN  IF found = {}
         THEN calls' = [calls EXCEPT ![c].pc = "count"]
         ELSE \E id \in MostRecent(sessions, found) :
                calls' = [calls EXCEPT ![c].pc = "updateTail", ![c].session = sessions[id]]
  /\ UNCHANGED <<restVars, providers, sessions, nextSessionId, now, faults>>

\* findMatchingSession: the head match takes the incoming tail hash
UpdateTail(c) ==
  /\ calls[c].pc = "updateTail"
  /\ sessions' = TailUpdated(sessions, calls[c].session.id, Hashes(c).tailHash, now)
  /\ calls' = [calls EXCEPT ![c] = WithSession(@, calls[c].session, "head")]
  /\ UNCHANGED <<restVars, providers, nextSessionId, now, faults>>

\* createSession: count the user's active sessions
Count(c) ==
  /\ calls[c].pc = "count"
  /\ calls' = [calls EXCEPT ![c].pc =
       IF AtCap(sessions, calls[c].userId) THEN "evict" ELSE "insert"]
  /\ UNCHANGED <<restVars, providers, sessions, nextSessionId, now, faults>>

\* createSession: DELETE ... ORDER BY last_accessed_at ASC LIMIT 1
Evict(c) ==
  /\ calls[c].pc = "evict"
  /\ LET mine == UserActive(sessions, calls[c].userId)
     IN  IF mine = {}
         THEN sessions' = sessions
         ELSE \E id \in Oldest(sessions, mine) : sessions' = Deleted(sessions, id)
  /\ calls' = [calls EXCEPT ![c].pc = "insert"]
  /\ UNCHANGED <<restVars, providers, nextSessionId, now, faults>>

\* createSession: this.create({...})
Insert(c) ==
  /\ calls[c].pc = "insert"
  /\ LET row == NewSession(nextSessionId, calls[c].providerId, calls[c].userId,
                           Hashes(c), now)
     IN  /\ sessions' = Inserted(sessions, row)
         /\ calls' = [calls EXCEPT ![c] = WithSession(@, row, "new")]
  /\ nextSessionId' = nextSessionId + 1
  /\ UNCHANGED <<restVars, providers, now, faults>>

\* the name the upstream gives a session created through provider p for call c
UpstreamSession(p, c) == <<p, c>>

\* client.createSession() on the client of the acquired provider
CreateSession(c) ==
  /\ calls[c].pc = "createSession"
  /\ \/ calls' = [calls EXCEPT ![c].pc = "updateGeminiSession",
                    ![c].geminiSessionId = UpstreamSession(calls[c].providerId, c)]
     \/ calls' = [calls EXCEPT ![c] = Caught(@)]
  /\ UNCHANGED <<restVars, providers, sessions, nextSessionId, now, faults>>

\* sessionMatcher.updateGeminiSession(session.id, geminiSessionId)
UpdateGeminiSession(c) ==
  /\ calls[c].pc = "updateGeminiSession"
  /\ sessions' = updateGeminiSessionId(sessions, calls[c].sessionId,
                                       calls[c].geminiSessionId, now)
  /\ calls' = [calls EXCEPT ![c].pc = "sendMessage"]
  /\ UNCHANGED <<restVars, providers, nextSessionId, now, faults>>

\* client.sendMessage / client.sendMessageStream on the acquired provider's client
SendMessage(c) ==
  /\ calls[c].pc = "sendMessage"
  /\ \/ calls' = [calls EXCEPT ![c].pc = "recordMessage"]
     \/ calls' = [calls EXCEPT ![c] = Caught(@)]
  /\ UNCHANGED <<restVars, providers, sessions, nextSessionId, now, faults>>

\* sessionMatcher.recordMessage(session.id)
RecordMessage(c) ==
  /\ calls[c].pc = "recordMessage"
  /\ sessions' = incrementMessageCount(sessions, calls[c].sessionId, now)
  /\ calls' = [calls EXCEPT ![c].pc = "release"]
  /\ UNCHANGED <<restVars, providers, nextSessionId, now, faults>>

(***************************************************************************)
(* The end of the try block and the catch block of the executor.           *)
(***************************************************************************)
\* providerScheduler.releaseProvider(provider.id)
Release(c) ==
  /\ calls[c].pc = "release"
  /\ providers' = [providers EXCEPT ![calls[c].providerId] = decrementLoad(@)]
  /\ calls' = [calls EXCEPT ![c].pc = "recordSuccess", ![c].released = @ + 1]
  /\ UNCHANGED <<restVars, sessions, nextSessionId, now, faults>>

\* providerScheduler.recordSuccess(provider.id)
RecordSuccess(c) ==
  /\ calls[c].pc = "recordSuccess"
  /\ providers' = [providers EXCEPT ![calls[c].providerId] = recordSuccess(@)]
  /\ calls' = [calls EXCEPT ![c].pc = "log", ![c].successes = @ + 1]
  /\ UNCHANGED <<restVars, sessions, nextSessionId, now, faults>>

\* RequestLog.log({... statusCode: 200}); return response
Log(c) ==
  /\ calls[c].pc = "log"
  /\ calls' = [calls EXCEPT ![c] = Finished(@, "ok")]
  /\ UNCHANGED <<restVars, providers, sessions, nextSessionId, now, faults>>

\* catch: providerScheduler.releaseProvider(providerId)
CatchRelease(c) ==
  /\ calls[c].pc = "catchRelease"
  /\ providers' = [providers EXCEPT ![calls[c].providerId] = decrementLoad(@)]
  /\ calls' = [calls EXCEPT ![c].pc = "catchFind", ![c].released = @ + 1]
  /\ UNCHANGED <<restVars, sessions, nextSessionId, now, faults>>

\* catch: recordFailure, const provider = await this.findById(id)
CatchFind(c) ==
  /\ calls[c].pc = "catchFind"
  /\ calls' = [calls EXCEPT ![c].pc = "catchUpdate",
                            ![c].provider = providers[calls[c].providerId],
                            ![c].readAt = now]
  /\ UNCHANGED <<restVars, providers, sessions, nextSessionId, now, faults>>

\* catch: recordFailure, return this.update(id, updates)
CatchUpdate(c) ==
  /\ calls[c].pc = "catchUpdate"
  /\ providers' = [providers EXCEPT ![calls[c].providerId] =
       ApplyFailureUpdates(@, FailureUpdates(calls[c].provider, calls[c].readAt))]
  /\ calls' = [calls EXCEPT ![c].pc = "catchLog", ![c].provider = NoRow,
                            ![c].readAt = NULL, ![c].failures = @ + 1]
  /\ UNCHANGED <<restVars, sessions, nextSessionId, now, faults>>

\* catch: RequestLog.log({... statusCode: 500}); throw new GeminiApiError
CatchLog(c) ==
  /\ calls[c].pc = "catchLog"
  /\ calls' = [calls EXCEPT ![c] = Finished([@ EXCEPT !.errorLogs = @ + 1], "error")]
  /\ UNCHANGED <<restVars, providers, sessions, nextSessionId, now, faults>>

\* a statement of the store rejects: caught inside try, thrown on inside catch
StoreFault(c) ==
  /\ calls[c].pc \in StorePcs
  /\ faults > 0
  /\ faults' = faults - 1
  /\ calls' = [calls EXCEPT ![c] =
       IF calls[c].pc \in TryPcs THEN Caught(@) ELSE Finished(@, "thrown")]
  /\ UNCHANGED <<restVars, providers, sessions, nextSessionId, now>>

Step(c) ==
  \/ Select(c) \/ Increment(c)
  \/ ExactQuery(c) \/ HeadQuery(c) \/ UpdateTail(c) \/ Count(c) \/ Evict(c) \/ Insert(c)
  \/ CreateSession(c) \/ UpdateGeminiSession(c) \/ SendMessage(c) \/ RecordMessage(c)
  \/ Release(c) \/ RecordSuccess(c) \/ Log(c)
  \/ CatchRelease(c) \/ CatchFind(c) \/ CatchUpdate(c) \/ CatchLog(c)

(***************************************************************************)
(* The parts that are not running in a specification: no matchOrCreate     *)
(* pair, no executeWithRetry call, no HTTP request, an empty api_keys      *)
(* table.                                                                  *)
(***************************************************************************)
NoResult == [id |-> NULL, providerId |-> NULL, matchType |-> "none", isNew |-> FALSE]

NoMatcher ==
  [pc |-> "off", userId |-> NULL, providerId |-> NULL, messages |-> <<>>,
   first |-> NoResult, second |-> NoResult]

\* no error: lastError = null
NoError == <<>>

NoRetry ==
  [pc |-> "off", attempt |-> 0, excludeIds |-> {}, provider |-> NULL, ran |-> <<>>,
   outcome |-> "none", acquired |-> <<>>, released |-> <<>>, lastError |-> NoError,
   thrown |-> NoError]

\* an authorization header is its first 7 characters and the rest; an absent
\* header or parameter is the empty text (both are falsy)
NoAuthorization == [scheme |-> "", rest |-> ""]

NoHeaders == [xGoogApiKey |-> "", authorization |-> NoAuthorization, queryKey |-> ""]

NoRequest ==
  [pc |-> "off", route |-> "none", carried |-> NoHeaders, apiKey |-> "", keyId |-> NULL,
   user |-> NULL, status |-> 0, handled |-> FALSE]

\* the bound on concurrent requests that share one GeminiClient
MaxRequests == 3

RequestIds == 1 .. MaxRequests

\* this.bearerToken = null: no token; a token is its iat and exp claims and the
\* number of the refresh that built it
NoToken == [present |-> FALSE, iat |-> 0, exp |-> 0, refresh |-> 0]

\* this.tokenData = null; a getoxsrf result without xsrfToken is the same record
NoTokenData == [present |-> FALSE, expirationTime |-> 0, refresh |-> 0]

\* a request that has not arrived; waited is the number of the refresh that was
\* pending when it arrived, refreshed says it called refreshToken itself, sent and
\* sentAt are the token of its outbound call and the time of the call
IdleRequest == [pc |-> "idle", waited |-> 0, refreshed |-> FALSE, sent |-> NoToken, sentAt |-> 0]

\* new GeminiClient(...): no token, tokenExpiresAt 0; inflight are the requests
\* inside refreshToken, refreshes counts the calls of refreshToken, failed says
\* the last refresh to end threw
NoClient ==
  [bearerToken |-> NoToken, tokenData |-> NoTokenData, tokenExpiresAt |-> 0,
   inflight |-> {}, refreshes |-> 0, failed |-> FALSE,
   requests |-> [r \in RequestIds |-> IdleRequest]]

\* the tasks of the health checker
Tasks == {"sweep", "recovery", "prune", "reset"}

\* new HealthChecker(): this.timers = []; registered are the timers the runtime
\* holds, runs counts the runs of each task
NoChecker ==
  [pc |-> "new", timers |-> {}, registered |-> {}, runs |-> [t \in Tasks |-> 0]]

AuxIdle ==
  /\ matcher = NoMatcher
  /\ retry = NoRetry
  /\ http = NoRequest
  /\ apiKeys = <<>>
  /\ client = NoClient
  /\ checker = NoChecker

(***************************************************************************)
(* The general specification: MaxCalls requests with any of the request    *)
(* bodies, two providers of one slot each, store statements that may fail. *)
(* The store holds the session of an earlier conversation of the user.     *)
(***************************************************************************)
EarlierSession ==
  [NewSession(1, 1, 1, generateSessionHashes(ConvOther, 0), 0)
     EXCEPT !.gemini_session_id = UpstreamSession(1, 0), !.message_count = 1]

Init ==
  /\ AuxIdle
  /\ providers = [p \in {1, 2} |-> NewProvider(1)]
  /\ sessions = Inserted(<<>>, EarlierSession)
  /\ nextSessionId = 2
  /\ calls = [c \in CallIds |-> IF c <= MaxCalls THEN IdleCall ELSE OffCall]
  /\ now = 0
  /\ faults = MaxFaults
  /\ upstream = <<>>
  /\ wire = <<>>
  /\ delivered = 0
  /\ parser = ParserInit
  /\ sse = NoStream
  /\ sink = <<>>

Next ==
  \E c \in CallIds : Start(c, Requests) \/ Step(c) \/ StoreFault(c)

Spec == Init /\ [][Next]_vars

(***************************************************************************)
(* The clock and the recovery timer.                                       *)
(***************************************************************************)
\* time passes
Tick ==
  /\ now < MaxTime
  /\ now' = now + 1
  /\ UNCHANGED <<restVars, providers, sessions, nextSessionId, calls, faults>>

\* ProviderScheduler.start / HealthChecker.start: the recovery interval fires
RecoveryTick ==
  /\ providers' = [p \in Providers |-> recoverCoolingProviders(providers[p], now)]
  /\ UNCHANGED <<restVars, sessions, nextSessionId, calls, now, faults>>

(***************************************************************************)
(* The scheduler specification: MaxSchedCalls concurrent requests of one   *)
(* conversation on a pool of one provider with three slots, the            *)
(* recovery timer and the clock; the store never fails.  The matcher and   *)
(* upstream steps of a request, which never write the providers table, are *)
(* taken as one step (Serve).                                              *)
(***************************************************************************)
\* matchOrCreate as one step: the tables and rows it can end with
MatchOrCreateResults(table, nextId, userId, h, providerId, t) ==
  LET exact == ExactMatches(table, userId, h)
      head == HeadMatches(table, userId, h)
      row == NewSession(nextId, providerId, userId, h, t)
      kept == IF AtCap(table, userId)
              THEN {Deleted(table, id) : id \in Oldest(table, UserActive(table, userId))}
              ELSE {table}
  IN  IF exact # {}
      THEN {[table |-> table, row |-> table[id], matchType |-> "exact", nextId |-> nextId] :
              id \in MostRecent(table, exact)}
      ELSE IF head # {}
      THEN {[table |-> TailUpdated(table, id, h.tailHash, t), row |-> table[id],
             matchType |-> "head", nextId |-> nextId] : id \in MostRecent(table, head)}
      ELSE {[table |-> Inserted(k, row), row |-> row, matchType |-> "new",
             nextId |-> nextId + 1] : k \in kept}

\* steps 2 to 8 of the executor in one step: matchOrCreate, createSession and
\* updateGeminiSession for a session without upstream id, sendMessage, recordMessage;
\* the upstream may fail at createSession or at sendMessage
Serve(c) ==
  /\ calls[c].pc = "exact"
  /\ \E r \in MatchOrCreateResults(sessions, nextSessionId, calls[c].userId, Hashes(c),
                                   calls[c].providerId, now) :
       LET isNew == r.row.gemini_session_id = NoGeminiSession
           name == IF isNew THEN UpstreamSession(calls[c].providerId, c)
                   ELSE r.row.gemini_session_id
           named == IF isNew THEN updateGeminiSessionId(r.table, r.row.id, name, now)
                    ELSE r.table
           matched == [calls[c] EXCEPT !.sessionId = r.row.id, !.matchType = r.matchType]
           sent == [matched EXCEPT !.geminiSessionId = name]
       IN  /\ nextSessionId' = r.nextId
           /\ \/ /\ isNew
                 /\ sessions' = r.table
                 /\ calls' = [calls EXCEPT ![c] = Caught(matched)]
              \/ /\ sessions' = named
                 /\ calls' = [calls EXCEPT ![c] = Caught(sent)]
              \/ /\ sessions' = incrementMessageCount(named, r.row.id, now)
                 /\ calls' = [calls EXCEPT ![c] = [sent EXCEPT !.pc = "release"]]
  /\ UNCHANGED <<restVars, providers, now, faults>>

InitSched ==
  /\ AuxIdle
  /\ providers = [p \in {1} |-> NewProvider(3)]
  /\ sessions = <<>>
  /\ nextSessionId = 1
  /\ calls = [c \in CallIds |-> IF c <= MaxSchedCalls THEN IdleCall ELSE OffCall]
  /\ now = 0
  /\ faults = 0
  /\ upstream = <<>>
  /\ wire = <<>>
  /\ delivered = 0
  /\ parser = ParserInit
  /\ sse = NoStream
  /\ sink = <<>>

NextSched ==
  \/ \E c \in CallIds :
        \/ Start(c, {ConvHello}) \/ Select(c) \/ Increment(c) \/ Serve(c)
        \/ Release(c) \/ RecordSuccess(c) \/ Log(c)
        \/ CatchRelease(c) \/ CatchFind(c) \/ CatchUpdate(c) \/ CatchLog(c)
  \/ Tick
  \/ RecoveryTick

SpecSched == InitSched /\ [][NextSched]_vars


\* ---------------------------------------------------------------------------
\* Properties of the request executor (specification Spec)
\* ---------------------------------------------------------------------------

\* C1: a call that acquired a provider releases it exactly once on every path
\* whose catch block, if entered, ran to its end: never more releases than
\* acquires, and as many releases as acquires once the call is over.
C1_ReleasedExactlyOnce ==
  \A c \in CallIds :
    /\ calls[c].released <= calls[c].acquired
    /\ (calls[c].pc = "done" /\ calls[c].outcome \in {"ok", "error"})
         => calls[c].released = calls[c].acquired

\* C2: when a call that ran with no other call in flight completes, with
\* success or with failure, every provider's current_load is what it was
\* before the call.
C2_LoadRestored ==
  [][\A c \in CallIds :
       (calls[c].pc # "done" /\ calls'[c].pc = "done" /\ calls[c].alone)
         => \A p \in Providers : providers'[p].current_load = calls[c].preLoad[p]]_vars

\* C3: under any interleaving of acquisitions, current_load of a provider
\* never exceeds its max_concurrent.
C3_LoadWithinMax ==
  \A p \in Providers : providers[p].current_load <= providers[p].max_concurrent

\* the session rows with status = 'active'
ActiveSessions == {id \in DOMAIN sessions : sessions[id].status = "active"}

\* C4: at most one active session row per (user_id, head_hash, tail_hash).
C4_OneActiveSessionPerKey ==
  \A a, b \in ActiveSessions :
    (/\ sessions[a].user_id = sessions[b].user_id
     /\ sessions[a].context_hash_head = sessions[b].context_hash_head
     /\ sessions[a].context_hash_tail = sessions[b].context_hash_tail) => a = b

\* the active sessions a user's one-message conversation ConvHello created
\* and a completed call recorded its message in
HelloSessions(userId) ==
  {id \in ExactMatches(sessions, userId, generateSessionHashes(ConvHello, 0)) :
     sessions[id].message_count >= 1}

\* C5: when the conversation that created a session with one user message
\* comes back extended by the model's turn and a new user message, after a
\* call that succeeded and with no other call in flight, the lookup of matchOrCreate answers with that
\* session as an exact match and leaves the sessions table as it was.
C5_FollowUpMatchesExact ==
  [][\A c \in CallIds :
       (/\ calls[c].pc = "exact"
        /\ calls[c].contents = ConvFollowUp
        /\ HelloSessions(calls[c].userId) # {}
        /\ \A o \in CallIds \ {c} : ~InFlight(o)
        /\ \E o \in CallIds : calls[o].pc = "done" /\ calls[o].outcome = "ok"
        /\ calls'[c].pc \in {"head", "createSession", "sendMessage"})
         => /\ calls'[c].matchType = "exact"
            /\ calls'[c].sessionId \in HelloSessions(calls[c].userId)
            /\ sessions' = sessions]_vars

\* C6: a call that matched an existing session sends its upstream request
\* through the provider of that session.
C6_MatchedSessionProvider ==
  \A c \in CallIds :
    (calls[c].pc = "sendMessage" /\ calls[c].matchType \in {"exact", "head"})
      => calls[c].providerId = calls[c].session.provider_id


\* C15: a call whose upstream request failed surfaces the error only after
\* the request was run on max_retries providers, or on every provider of the
\* pool when the pool is smaller (a call that ran alone, with no failure of
\* the store).
C15_RetriesBeforeError ==
  [][\A c \in CallIds :
       (/\ calls[c].pc = "catchLog"
        /\ calls'[c].pc = "done"
        /\ calls'[c].outcome = "error"
        /\ calls[c].alone
        /\ faults = MaxFaults
        /\ calls[c].acquired >= 1)
         => calls[c].acquired >= Min(MaxRetries, Cardinality(Providers))]_vars

\* C23: an executor call that fails after a provider was acquired records
\* exactly one failure for that provider and writes exactly one request-log row
\* of a non-2xx status with the error message
C23_OneFailureOneLogRow ==
  \A c \in CallIds :
    (calls[c].pc = "done" /\ calls[c].outcome # "ok" /\ calls[c].acquired >= 1)
      => calls[c].failures = 1 /\ calls[c].errorLogs = 1

\* C16: no step of a call whose body has no contents changes current_load,
\* health_score, consecutive_failures or failed_requests of a provider.
C16_InvalidRequestTouchesNoProvider ==
  [][\A c \in CallIds :
       (calls[c].contents = Undefined /\ calls'[c] # calls[c])
         => \A p \in Providers :
              /\ providers'[p].current_load = providers[p].current_load
              /\ providers'[p].health_score = providers[p].health_score
              /\ providers'[p].consecutive_failures = providers[p].consecutive_failures
              /\ providers'[p].failed_requests = providers[p].failed_requests]_vars

\* ---------------------------------------------------------------------------
\* Properties of the provider's failure accounting (specification SpecSched)
\* ---------------------------------------------------------------------------

\* active and inactive below cooling, cooling below failed
Severity(status) ==
  CASE status = "failed" -> 2
    [] status = "cooling" -> 1
    [] OTHER -> 0

\* C7: once a recordFailure wrote status cooling or failed, the write of a
\* recordFailure that was in flight beside it never sets a less severe status.
C7_NoLessSevereWrite ==
  [][\A c \in CallIds :
       (calls[c].pc = "catchUpdate" /\ calls'[c].pc = "catchLog")
         => Severity(providers'[calls[c].providerId].status)
              >= Severity(providers[calls[c].providerId].status)]_vars

\* C8: no operation of the scheduler changes the status of a provider whose
\* status is failed.
C8_FailedStaysFailed ==
  [][\A p \in Providers :
       providers[p].status = "failed" => providers'[p].status = "failed"]_vars

\* C9: a provider whose status is failed has consecutive_failures of at least
\* twice the failure threshold.
C9_FailedHasFailures ==
  \A p \in Providers :
    providers[p].status = "failed"
      => providers[p].consecutive_failures >= 2 * FailureThreshold

\* C10: a recordFailure whose row nobody wrote between its read and its write
\* adds exactly 1 to consecutive_failures, failed_requests and total_requests
\* and sets health_score to max(0, previous - 10); with the new
\* consecutive_failures at or above the failure threshold the status becomes
\* cooling and cooldown_until the time recordFailure ran plus the cooldown
\* duration, and at or above twice the threshold the status becomes failed.
C10_RecordFailureEffect ==
  [][\A c \in CallIds :
       (/\ calls[c].pc = "catchUpdate"
        /\ calls'[c].pc = "catchLog"
        /\ providers[calls[c].providerId] = calls[c].provider)
         => LET old == providers[calls[c].providerId]
                new == providers'[calls[c].providerId]
            IN  /\ new.consecutive_failures = old.consecutive_failures + 1
                /\ new.failed_requests = old.failed_requests + 1
                /\ new.total_requests = old.total_requests + 1
                /\ new.health_score = Max(0, old.health_score - 10)
                /\ new.current_load = old.current_load
                /\ new.consecutive_failures >= 2 * FailureThreshold
                     => new.status = "failed"
                /\ (/\ new.consecutive_failures >= FailureThreshold
                    /\ new.consecutive_failures < 2 * FailureThreshold)
                     => /\ new.status = "cooling"
                        /\ new.cooldown_until = calls[c].readAt + CooldownDuration
                /\ new.consecutive_failures < FailureThreshold
                     => new.status = old.status]_vars

\* a call that ran alone has recorded its failure: the provider is cooling
\* with the counters of one failure
C10_Witness ==
  \E c \in CallIds :
    /\ calls[c].pc = "catchLog"
    /\ calls[c].alone
    /\ calls[c].providerId # NULL
    /\ LET row == providers[calls[c].providerId]
       IN  /\ row.status = "cooling"
           /\ row.consecutive_failures = FailureThreshold
           /\ row.failed_requests = 1
           /\ row.total_requests = 1
           /\ row.health_score = 90
           /\ row.cooldown_until = now + CooldownDuration


(***************************************************************************)
(* The recovery specification: a pool of two providers in any of the       *)
(* states the providers table can hold, the clock and the recovery timer.  *)
(***************************************************************************)
\* rows of the providers table: every status, with and without a cooldown
PoolRows ==
  {[NewProvider(2) EXCEPT !.status = s, !.health_score = h, !.current_load = l,
                          !.consecutive_failures = f, !.cooldown_until = u] :
     s \in {"active", "cooling", "failed", "inactive"}, h \in {100, 40},
     l \in {0, 1}, f \in {0, 2}, u \in {NULL, 1, 2}}

InitRecover ==
  /\ AuxIdle
  /\ providers \in [{1, 2} -> PoolRows]
  /\ sessions = <<>>
  /\ nextSessionId = 1
  /\ calls = [c \in CallIds |-> OffCall]
  /\ now = 0
  /\ faults = 0
  /\ upstream = <<>>
  /\ wire = <<>>
  /\ delivered = 0
  /\ parser = ParserInit
  /\ sse = NoStream
  /\ sink = <<>>

NextRecover == Tick \/ RecoveryTick

SpecRecover == InitRecover /\ [][NextRecover]_vars

\* C11: a recovery tick sets exactly the providers with status cooling and
\* cooldown_until <= now to status active, consecutive_failures 0 and
\* health_score 50, leaves every other provider as it was, and leaves
\* current_load of every provider as it was.
C11_RecoveryTickFrame ==
  [][RecoveryTick =>
       \A p \in Providers :
         LET old == providers[p]
             new == providers'[p]
         IN  /\ new.current_load = old.current_load
             /\ IF /\ old.status = "cooling"
                   /\ old.cooldown_until # NULL
                   /\ old.cooldown_until <= now
                THEN new = [old EXCEPT !.status = "active",
                                       !.consecutive_failures = 0,
                                       !.health_score = 50]
                ELSE new = old]_vars

\* a tick has recovered one provider (health_score 50 is written by the tick
\* alone) beside a provider still cooling with its cooldown in the future
C11_Witness ==
  \E p, q \in Providers :
    /\ providers[p].status = "active"
    /\ providers[p].health_score = 50
    /\ providers[p].consecutive_failures = 0
    /\ providers[p].cooldown_until # NULL
    /\ providers[p].cooldown_until <= now
    /\ providers[q].status = "cooling"
    /\ providers[q].cooldown_until > now
    /\ providers[q].consecutive_failures = 2


(***************************************************************************)
(* The stream specification: one upstream response, a bracketed array of   *)
(* at most MaxObjects objects, arrives cut into chunks at up to MaxCuts    *)
(* places, or after every byte.                                            *)
(***************************************************************************)
\* {"a":1}
ObjPlain == <<"{", "\"", "a", "\"", ":", "1", "}">>
\* {"a":"}],{["}
ObjBraces == <<"{", "\"", "a", "\"", ":", "\"", "}", "]", ",", "{", "[", "\"", "}">>
\* {"a":"\"}"}
ObjQuote == <<"{", "\"", "a", "\"", ":", "\"", "\\", "\"", "}", "\"", "}">>
\* {"a":"\\"}
ObjBackslash == <<"{", "\"", "a", "\"", ":", "\"", "\\", "\\", "\"", "}">>
\* {"a":{"b":[1]}}
ObjNested == <<"{", "\"", "a", "\"", ":", "{", "\"", "b", "\"", ":", "[", "1", "]", "}", "}">>
\* {"a":"é"}, é in two bytes
ObjAccent == <<"{", "\"", "a", "\"", ":", "\"", "C3", "A9", "\"", "}">>

Objects == {ObjPlain, ObjBraces, ObjQuote, ObjBackslash, ObjNested, ObjAccent}

ObjectSeqs == UNION {[1 .. n -> Objects] : n \in 0 .. MaxObjects}

\* [{...},\r\n{...},\r\n{...}]
RECURSIVE Joined(_)
Joined(objs) ==
  IF objs = <<>> THEN <<>>
  ELSE IF Len(objs) = 1 THEN objs[1]
  ELSE objs[1] \o <<",", "\r", "\n">> \o Joined(Tail(objs))

Framed(objs) == <<"[">> \o Joined(objs) \o <<"]">>

\* the sets of at most k places to cut a stream of n bytes
RECURSIVE CutSets(_, _)
CutSets(n, k) ==
  IF k = 0 THEN {{}}
  ELSE LET fewer == CutSets(n, k - 1)
       IN  fewer \cup {S \cup {i} : S \in fewer, i \in 1 .. n - 1}

\* the cuts of a stream of n bytes: a few places, or after every byte
Cuts(n) == CutSets(n, MaxCuts) \cup {1 .. n - 1}

\* the chunks of stream cut after the positions of cuts
Split(stream, cuts) ==
  LET starts == {1} \cup {c + 1 : c \in cuts}
      start(i) == CHOOSE b \in starts : Cardinality({x \in starts : x < b}) = i - 1
      end(i) == IF i = Cardinality(starts) THEN Len(stream) ELSE start(i + 1) - 1
  IN  [i \in 1 .. Cardinality(starts) |-> SubSeq(stream, start(i), end(i))]

\* the bytes of all chunks in order
RECURSIVE Flatten(_)
Flatten(chunked) ==
  IF chunked = <<>> THEN <<>> ELSE chunked[1] \o Flatten(Tail(chunked))

InitStream ==
  /\ AuxIdle
  /\ providers = <<>>
  /\ sessions = <<>>
  /\ nextSessionId = 1
  /\ calls = [c \in CallIds |-> OffCall]
  /\ now = 0
  /\ faults = 0
  /\ sse = NoStream
  /\ sink = <<>>
  /\ upstream \in ObjectSeqs
  /\ \E cuts \in Cuts(Len(Framed(upstream))) : wire = Split(Framed(upstream), cuts)
  /\ delivered = 0
  /\ parser = ParserInit

\* curl.stdout emits the next chunk
Data ==
  /\ delivered < Len(wire)
  /\ ~parser.closed
  /\ parser' = onData(parser, wire[delivered + 1])
  /\ delivered' = delivered + 1
  /\ UNCHANGED <<auxVars, execVars, emitVars, upstream, wire>>

\* curl exits with code 0 after its output
Close ==
  /\ delivered = Len(wire)
  /\ ~parser.closed
  /\ parser' = onClose(parser)
  /\ UNCHANGED <<auxVars, execVars, emitVars, upstream, wire, delivered>>

NextStream == Data \/ Close

SpecStream == InitStream /\ [][NextStream]_vars

\* what the parser resolves with when the whole stream arrives in one chunk
OneChunk(stream) == onClose(onData(ParserInit, stream)).chunks

\* C12: however the byte stream of a bracketed array of complete objects is
\* split into chunks, the parser ends with the same sequence of objects as
\* when the whole stream arrives in one chunk.
C12_ChunkingIndependent ==
  parser.closed => parser.chunks = OneChunk(Flatten(wire))

\* a text without its characters outside ASCII, whole or replaced
Ascii(text) ==
  SelectSeq(text, LAMBDA ch : ch \notin {"C3", "A9", "U+00E9", "U+FFFD"})

\* C13: braces, brackets and commas inside a string, and a quote after a
\* backslash inside a string, neither change the depth nor end the object:
\* the objects emitted are, one for one and in order, the objects sent, each
\* ended by the brace that closes its outermost brace outside any string.
C13_StringsAreOpaque ==
  /\ Len(parser.chunks) <= Len(upstream)
  /\ \A i \in 1 .. Len(parser.chunks) :
       Ascii(parser.chunks[i][2]) = Ascii(upstream[i])
  /\ parser.closed => Len(parser.chunks) = Len(upstream)

\* a stream cut into several chunks, whose objects hold a closing brace, a
\* bracket and a comma in a string and a quote after a backslash, was read
\* to its end
C13_Witness ==
  /\ parser.closed
  /\ upstream = <<ObjBraces, ObjQuote>>
  /\ Len(wire) = MaxCuts + 1
  /\ Len(parser.chunks) = 2


(***************************************************************************)
(* The emission specification: one streaming call whose upstream delivers  *)
(* at most MaxDeliveries objects, with and without thoughts and media      *)
(* requested; the upstream or the store may fail at any await.             *)
(***************************************************************************)
UpObjects ==
  {NoAnswer,
   Answer(<<Reply("a", FALSE)>>),
   Answer(<<Reply("t", TRUE), Reply("b", FALSE)>>),
   Answer(<<Reply("", FALSE)>>)}

\* recordMessage, releaseProvider, recordSuccess, RequestLog.log, then onDone;
\* or recordMessage rejects, or one of the three after it does: catch, throw
Finish ==
  /\ sse.pc = "finish"
  /\ \/ /\ sessions' = incrementMessageCount(sessions, sse.sessionId, now)
        /\ sink' = Append(sink, DoneMark)
        /\ sse' = [sse EXCEPT !.pc = "done"]
     \/ /\ sessions' = incrementMessageCount(sessions, sse.sessionId, now)
        /\ sink' = sink
        /\ sse' = [sse EXCEPT !.pc = "failed"]
     \/ /\ sessions' = sessions
        /\ sink' = sink
        /\ sse' = [sse EXCEPT !.pc = "failed"]
  /\ UNCHANGED <<auxVars, streamVars, providers, nextSessionId, calls, now, faults>>

\* the caller closes the connection while the call runs: no handler of the
\* route or of the executor listens to it
Disconnect ==
  /\ sse.pc \in {"stream", "image", "finish"}
  /\ sse.connected
  /\ sse' = [sse EXCEPT !.connected = FALSE]
  /\ UNCHANGED <<auxVars, execVars, streamVars, sink>>

InitEmit ==
  /\ AuxIdle
  /\ providers = <<>>
  /\ sessions = Inserted(<<>>, EarlierSession)
  /\ nextSessionId = 2
  /\ calls = [c \in CallIds |-> OffCall]
  /\ now = 0
  /\ faults = 0
  /\ upstream = <<>>
  /\ wire = <<>>
  /\ delivered = 0
  /\ parser = ParserInit
  /\ \E objs \in UNION {[1 .. n -> UpObjects] : n \in 0 .. MaxDeliveries},
        thoughts \in BOOLEAN, image \in BOOLEAN :
       sse = [NoStream EXCEPT !.pc = "stream", !.objects = objs,
                              !.includeThoughts = thoughts, !.wantsImage = image,
                              !.sessionId = EarlierSession.id]
  /\ sink = <<>>

NextEmit == Deliver \/ StreamEnd \/ StreamFail \/ Image \/ Finish \/ Disconnect

SpecEmit == InitEmit /\ [][NextEmit]_vars

\* positions of the sink holding an entry of the kind
SinkAt(kind) == {i \in 1 .. Len(sink) : sink[i].kind = kind}

\* the replies of the objects delivered so far, in the order of delivery
RECURSIVE RepliesOf(_)
RepliesOf(objects) ==
  IF objects = <<>> THEN <<>>
  ELSE (IF objects[1].answer THEN objects[1].replies ELSE <<>>) \o RepliesOf(Tail(objects))

\* the chunks derived from the upstream's stream are its replies that carry
\* text (thoughts only on request), in the order delivered, finishReason null
StreamChunksInOrder ==
  LET due == SelectSeq(RepliesOf(SubSeq(sse.objects, 1, sse.delivered)),
                       LAMBDA r : r.text # "" /\ (r.thought => sse.includeThoughts))
      got == SelectSeq(sink, LAMBDA o : o.kind = "chunk")
  IN  /\ Len(got) = Len(due)
      /\ \A i \in 1 .. Len(got) :
           /\ got[i].text = due[i].text
           /\ got[i].thought = due[i].thought
           /\ got[i].finishReason = "null"

\* the final chunk is written at most once, and once when onDone is
\* called; onDone is called at most once and nothing follows it
FinalOnceDoneLast ==
  /\ Cardinality(SinkAt("final")) <= 1
  /\ Cardinality(SinkAt("done")) <= 1
  /\ \A f \in SinkAt("final") :
       sink[f].text = "" /\ sink[f].finishReason = "STOP"
         /\ sink[f].usageMetadata = <<sse.fullContent, sse.thoughtContent>>
  /\ \A d \in SinkAt("done") :
       d = Len(sink) /\ \E f \in SinkAt("final") : f < d
  /\ sse.pc = "done" => SinkAt("done") # {}

\* C14 (as stated): the chunks reach the sink in the order delivered, each
\* with finishReason null; the final chunk is written once, after every
\* other chunk and before onDone; onDone is called at most once and nothing
\* follows it.
C14_FinalChunkAfterAll ==
  /\ StreamChunksInOrder
  /\ FinalOnceDoneLast
  /\ \A i \in 1 .. Len(sink) :
       sink[i].kind \notin {"final", "done"}
         => /\ sink[i].finishReason = "null"
            /\ \A f \in SinkAt("final") : i < f

\* C14 (amended): the chunks derived from the upstream's stream reach the
\* sink in the order delivered, each with finishReason null, all before the
\* final chunk; the final chunk is written once in a call that reaches
\* onDone; when media is requested at most one inline image chunk, with
\* finishReason STOP, follows the final chunk; onDone is called at most once
\* and nothing follows it.
C14_FinalChunkThenImage ==
  /\ StreamChunksInOrder
  /\ FinalOnceDoneLast
  /\ \A i \in SinkAt("chunk") : \A f \in SinkAt("final") : i < f
  /\ Cardinality(SinkAt("image")) <= 1
  /\ \A i \in SinkAt("image") :
       /\ sse.wantsImage
       /\ sink[i].finishReason = "STOP"
       /\ \E f \in SinkAt("final") : f < i

\* a call with thoughts and media requested has written a thought, two
\* texts, the final chunk, the image and called onDone
C14_Witness ==
  /\ sse.pc = "done"
  /\ Len(sse.objects) = 2
  /\ Cardinality(SinkAt("chunk")) = 3
  /\ \E i \in SinkAt("chunk") : sink[i].thought
  /\ SinkAt("image") # {}
  /\ sink[Len(sink)] = DoneMark

(***************************************************************************)
(* The matcher on its own: matchOrCreate(u, p, M) twice in a row, over a   *)
(* store that already holds sessions of the user, on providers that are    *)
(* active or cooling.                                                      *)
(***************************************************************************)
\* a conversation with more than 5 user messages, and the same one grown by a turn
ConvLong ==
  <<UserMsg("m1"), UserMsg("m2"), UserMsg("m3"), UserMsg("m4"), UserMsg("m5"),
    ModelMsg("answer"), UserMsg("m6")>>
ConvLonger == ConvLong \o <<ModelMsg("answer"), UserMsg("m7")>>

MatcherConversations == {ConvHello, ConvLong, ConvLonger}

\* a session row an earlier request left: created for conv on provider p, used at t
StoredSession(id, p, conv, t) ==
  [NewSession(id, p, 1, generateSessionHashes(conv, 0), t)
     EXCEPT !.gemini_session_id = UpstreamSession(p, 0), !.message_count = 1]

\* the sessions tables the pair of calls may find
StoredTables ==
  LET a == {{}, {StoredSession(1, 1, ConvHello, 0)}}
      b == {{}} \cup {{StoredSession(2, 2, ConvHello, t)} : t \in {0, 1}}
      c == {{}} \cup {{StoredSession(3, p, ConvLong, 0)} : p \in {1, 2}}
      d == {{}, {StoredSession(4, 1, ConvLonger, 0)}}
      table(rows) == [id \in {r.id : r \in rows} |-> CHOOSE r \in rows : r.id = id]
  IN  {table(ra \cup rb \cup rc \cup rd) : ra \in a, rb \in b, rc \in c, rd \in d}

InitMatch ==
  /\ retry = NoRetry
  /\ http = NoRequest
  /\ apiKeys = <<>>
  /\ client = NoClient
  /\ checker = NoChecker
  /\ providers \in [{1, 2} -> {NewProvider(1), [NewProvider(1) EXCEPT !.status = "cooling"]}]
  /\ sessions \in StoredTables
  /\ nextSessionId = 5
  /\ calls = [c \in CallIds |-> OffCall]
  /\ now = 1
  /\ faults = 0
  /\ upstream = <<>>
  /\ wire = <<>>
  /\ delivered = 0
  /\ parser = ParserInit
  /\ sse = NoStream
  /\ sink = <<>>
  /\ \E u \in Users, p \in {1, 2}, m \in MatcherConversations :
       matcher = [NoMatcher EXCEPT !.pc = "first", !.userId = u, !.providerId = p,
                                   !.messages = m]

\* what matchOrCreate returns: {session, isNew, matchType}
Returned(r) ==
  [id |-> r.row.id, providerId |-> r.row.provider_id, matchType |-> r.matchType,
   isNew |-> r.matchType = "new"]

MatcherHashes == generateSessionHashes(matcher.messages, 0)

MatchFirst ==
  /\ matcher.pc = "first"
  /\ \E r \in MatchOrCreateResults(sessions, nextSessionId, matcher.userId, MatcherHashes,
                                   matcher.providerId, now) :
       /\ sessions' = r.table
       /\ nextSessionId' = r.nextId
       /\ matcher' = [matcher EXCEPT !.pc = "second", !.first = Returned(r)]
  /\ UNCHANGED <<streamVars, emitVars, retry, http, apiKeys, client, checker, providers, calls, now, faults>>

MatchSecond ==
  /\ matcher.pc = "second"
  /\ \E r \in MatchOrCreateResults(sessions, nextSessionId, matcher.userId, MatcherHashes,
                                   matcher.providerId, now) :
       /\ sessions' = r.table
       /\ nextSessionId' = r.nextId
       /\ matcher' = [matcher EXCEPT !.pc = "end", !.second = Returned(r)]
  /\ UNCHANGED <<streamVars, emitVars, retry, http, apiKeys, client, checker, providers, calls, now, faults>>

NextMatch == MatchFirst \/ MatchSecond

SpecMatch == InitMatch /\ [][NextMatch]_vars

\* C17: for a conversation with at least one user message, the second of two
\* matchOrCreate(u, p, M) calls returns the session id the first one created or
\* matched, with matchType exact and isNew false
C17_SecondCallSameSession ==
  matcher.pc = "end"
    => /\ matcher.second.id = matcher.first.id
       /\ matcher.second.matchType = "exact"
       /\ ~matcher.second.isNew

\* the rows of the key of the call that an exact lookup can return
MatcherKeyRows == ExactMatches(sessions, matcher.userId, MatcherHashes)

\* C17 as amended: when the provider of the session the first call returned is
\* active, the second call is an exact match, makes no row, and returns a row
\* of the key of M; that row is the first call's unless another row of the key
\* was accessed as recently
C17_SecondCallExact ==
  (matcher.pc = "end" /\ providers[matcher.first.providerId].status = "active")
    => /\ matcher.second.matchType = "exact"
       /\ ~matcher.second.isNew
       /\ nextSessionId = (IF matcher.first.isNew THEN 6 ELSE 5)
       /\ matcher.second.id \in MatcherKeyRows
       /\ matcher.first.id \in MatcherKeyRows
       /\ (\A o \in MatcherKeyRows \ {matcher.first.id} :
             sessions[o].last_accessed_at < sessions[matcher.first.id].last_accessed_at)
            => matcher.second.id = matcher.first.id

\* a long conversation made a session at the first call and the second call
\* returned it as an exact match
C17_Witness ==
  /\ matcher.pc = "end"
  /\ matcher.messages = ConvLonger
  /\ matcher.first.isNew
  /\ matcher.second.id = matcher.first.id
  /\ matcher.second.matchType = "exact"

\* the call that has just returned, and what it returned
MatcherReturns == matcher'.pc # matcher.pc
JustReturned == IF matcher.pc = "first" THEN matcher'.first ELSE matcher'.second

\* the active sessions of the user with the head fingerprint of M and another tail
GrownSessions ==
  {id \in DOMAIN sessions : /\ sessions[id].status = "active"
                            /\ sessions[id].user_id = matcher.userId
                            /\ sessions[id].context_hash_head = MatcherHashes.headHash
                            /\ sessions[id].context_hash_tail # MatcherHashes.tailHash}

\* C18: when an active session has the head fingerprint of the incoming
\* conversation and another tail fingerprint, matchOrCreate returns that session
\* with matchType head, sets its tail_hash to the incoming one and creates no row
C18_HeadMatchUpdatesTail ==
  [][(MatcherReturns /\ GrownSessions # {})
       => /\ JustReturned.id \in GrownSessions
          /\ JustReturned.matchType = "head"
          /\ DOMAIN sessions' = DOMAIN sessions
          /\ sessions'[JustReturned.id].context_hash_tail = MatcherHashes.tailHash]_vars

\* the sessions of GrownSessions on a provider that is active
GrownUsable == {id \in GrownSessions : providers[sessions[id].provider_id].status = "active"}

\* C18 as amended: when no active session on an active provider has both
\* fingerprints of M and some have its head fingerprint, matchOrCreate returns
\* the most recently accessed of these with matchType head, sets its tail_hash
\* to the incoming one and its last_accessed_at to now, leaves the other rows
\* alone and creates no row
C18_HeadMatchOnActiveProvider ==
  [][(MatcherReturns /\ GrownUsable # {} /\ MatcherKeyRows = {})
       => /\ JustReturned.id \in GrownUsable
          /\ \A o \in GrownUsable :
               sessions[o].last_accessed_at <= sessions[JustReturned.id].last_accessed_at
          /\ JustReturned.matchType = "head"
          /\ ~JustReturned.isNew
          /\ DOMAIN sessions' = DOMAIN sessions
          /\ nextSessionId' = nextSessionId
          /\ sessions'[JustReturned.id] =
               [sessions[JustReturned.id] EXCEPT !.context_hash_tail = MatcherHashes.tailHash,
                                                 !.last_accessed_at = now]
          /\ \A o \in DOMAIN sessions \ {JustReturned.id} : sessions'[o] = sessions[o]]_vars

\* the grown conversation matched the session of the shorter one by its head,
\* and the row now carries the tail fingerprint of the grown conversation
C18_Witness ==
  /\ matcher.pc = "second"
  /\ matcher.messages = ConvLonger
  /\ matcher.first.matchType = "head"
  /\ matcher.first.id = 3
  /\ sessions[3].context_hash_tail = MatcherHashes.tailHash
  /\ sessions[3].context_hash_tail # generateSessionHashes(ConvLong, 0).tailHash
  /\ nextSessionId = 5

(***************************************************************************)
(* One request to a /v1beta route: the preHandler hook of the gemini       *)
(* routes (plugins/auth.js authenticate), the api_keys table, the route    *)
(* handler and the start of the executor call it makes.                    *)
(***************************************************************************)
\* the api_keys table joined with users: a good key, a key at its daily limit,
\* a deactivated key
KeyTable ==
  <<[id |-> 1, user_id |-> 1, api_key |-> "good", is_active |-> TRUE, user_active |-> TRUE,
     daily_usage |-> 0, daily_limit |-> 2, expires_at |-> NULL, last_used_at |-> NULL],
    [id |-> 2, user_id |-> 1, api_key |-> "capped", is_active |-> TRUE, user_active |-> TRUE,
     daily_usage |-> 2, daily_limit |-> 2, expires_at |-> NULL, last_used_at |-> NULL],
    [id |-> 3, user_id |-> 1, api_key |-> "revoked", is_active |-> FALSE, user_active |-> TRUE,
     daily_usage |-> 0, daily_limit |-> 2, expires_at |-> NULL, last_used_at |-> NULL]>>

Routes == {"models", "generateContent"}

\* what a request may carry
CarriedSets ==
  [xGoogApiKey : {"", "good", "unknown", "capped", "revoked"},
   authorization : {NoAuthorization, [scheme |-> "Bearer ", rest |-> "good"],
                    [scheme |-> "Bearer ", rest |-> ""],
                    [scheme |-> "Basic Y", rest |-> "WRtaW46eA=="]},
   queryKey : {"", "good", "unknown"}]

\* fastify.addHook('preHandler', fastify.authenticate): what runs for a route
LifecycleUnguarded(route) == <<"handler">>

Lifecycle(route) == <<"authenticate", "handler">>

\* authenticate: the key from the header, the Bearer authorization or the query
ExtractApiKey(carried) ==
  LET fromHeader == carried.xGoogApiKey
      fromBearer == IF fromHeader = "" /\ carried.authorization # NoAuthorization
                       /\ carried.authorization.scheme = "Bearer "
                    THEN carried.authorization.rest
                    ELSE fromHeader
  IN  IF fromBearer = "" /\ carried.queryKey # "" THEN carried.queryKey ELSE fromBearer

\* utils/errors: the status code an application error carries
AppErrorStatus(error) ==
  IF error = "AuthenticationError" THEN 401
  ELSE IF error = "RateLimitError" THEN 429
  ELSE NULL

\* app.setErrorHandler: error.statusCode of an AppError, error.statusCode || 500
errorHandler(error) ==
  IF AppErrorStatus(error) # NULL THEN AppErrorStatus(error) ELSE 500

Thrown(error) == [http EXCEPT !.pc = "replied", !.status = errorHandler(error)]

InitAuth ==
  /\ matcher = NoMatcher
  /\ retry = NoRetry
  /\ apiKeys = KeyTable
  /\ client = NoClient
  /\ checker = NoChecker
  /\ \E route \in Routes, carried \in CarriedSets :
       http = [NoRequest EXCEPT !.pc = Lifecycle(route)[1], !.route = route,
                                !.carried = carried]
  /\ providers = [p \in {1, 2} |-> NewProvider(1)]
  /\ sessions = <<>>
  /\ nextSessionId = 1
  /\ calls = [c \in CallIds |-> OffCall]
  /\ now = 0
  /\ faults = 0
  /\ upstream = <<>>
  /\ wire = <<>>
  /\ delivered = 0
  /\ parser = ParserInit
  /\ sse = NoStream
  /\ sink = <<>>

\* authenticate up to its first await: if (!apiKey) throw new AuthenticationError
ReadKey ==
  /\ http.pc = "authenticate"
  /\ LET apiKey == ExtractApiKey(http.carried)
     IN  IF apiKey = ""
         THEN http' = Thrown("AuthenticationError")
         ELSE http' = [http EXCEPT !.pc = "validate", !.apiKey = apiKey]
  /\ UNCHANGED <<execVars, streamVars, emitVars, matcher, retry, apiKeys, client, checker>>

\* ApiKey.validate: the row of the key if key and user are active
KeyInfo(apiKey) ==
  {k \in DOMAIN apiKeys : /\ apiKeys[k].api_key = apiKey
                          /\ apiKeys[k].is_active
                          /\ apiKeys[k].user_active
                          /\ (apiKeys[k].expires_at = NULL \/ apiKeys[k].expires_at > now)}

\* await ApiKey.validate(apiKey) and the two checks after it; last_used_at = NOW()
\* is a time after the NULL of a key never used
Validate ==
  /\ http.pc = "validate"
  /\ IF KeyInfo(http.apiKey) = {}
     THEN http' = Thrown("AuthenticationError") /\ UNCHANGED apiKeys
     ELSE \E k \in KeyInfo(http.apiKey) :
            IF apiKeys[k].daily_usage >= apiKeys[k].daily_limit
            THEN http' = Thrown("RateLimitError") /\ UNCHANGED apiKeys
            ELSE /\ apiKeys' = [apiKeys EXCEPT ![k].last_used_at = now + 1]
                 /\ http' = [http EXCEPT !.pc = "incrementUsage", !.keyId = k]
  /\ UNCHANGED <<execVars, streamVars, emitVars, matcher, retry, client, checker>>

\* await ApiKey.incrementUsage(keyInfo.id); request.user = ...; the handler is next
IncrementUsage ==
  /\ http.pc = "incrementUsage"
  /\ apiKeys' = [apiKeys EXCEPT ![http.keyId].daily_usage = @ + 1]
  /\ http' = [http EXCEPT !.pc = "handler", !.user = apiKeys[http.keyId].user_id]
  /\ UNCHANGED <<execVars, streamVars, emitVars, matcher, retry, client, checker>>

\* the route handler: listModels answers at once, handleGenerateContent reads
\* request.user.id and calls requestExecutor.generateContent
Handle ==
  /\ http.pc = "handler"
  /\ IF http.route = "models"
     THEN /\ http' = [http EXCEPT !.pc = "replied", !.status = 200, !.handled = TRUE]
          /\ UNCHANGED calls
     ELSE IF http.user = NULL
     THEN /\ http' = [Thrown("TypeError") EXCEPT !.handled = TRUE]
          /\ UNCHANGED calls
     ELSE /\ http' = [http EXCEPT !.pc = "executor", !.handled = TRUE]
          /\ \E m \in Conversations :
               calls' = [calls EXCEPT ![1] =
                 [IdleCall EXCEPT !.pc = "select", !.userId = http.user, !.contents = m,
                    !.preLoad = [p \in Providers |-> providers[p].current_load]]]
  /\ UNCHANGED <<streamVars, emitVars, matcher, retry, apiKeys, client, checker, providers, sessions,
                 nextSessionId, now, faults>>

NextAuth ==
  \/ ReadKey \/ Validate \/ IncrementUsage \/ Handle
  \/ \E c \in CallIds : Select(c) \/ Increment(c)

SpecAuth == InitAuth /\ [][NextAuth]_vars

\* no x-goog-api-key header, no Bearer authorization, no key query parameter
NoKeyCarried ==
  /\ http.carried.xGoogApiKey = ""
  /\ http.carried.authorization.scheme # "Bearer "
  /\ http.carried.queryKey = ""

JsNumber(n) == [type |-> "number", value |-> n]
ArrayFrom(set) == [type |-> "object", value |-> set]
JsNull == [type |-> "null", value |-> {}]

\* if (excludeId): null is falsy, a number other than 0 and any array are truthy
Truthy(v) == v.type = "object" \/ (v.type = "number" /\ v.value # 0)

\* a !== b: values of different types differ, numbers by value, and an array is
\* equal to itself only (ids are never compared with the array they came from)
StrictNotEqual(a, b) ==
  \/ a.type # b.type
  \/ a.type = "object"
  \/ (a.type = "number" /\ a.value # b.value)

\* selectProvider: providers.filter(p => p.id !== excludeId)
Candidates(excludeId) ==
  IF Truthy(excludeId)
  THEN {p \in getAvailableProviders : StrictNotEqual(JsNumber(p), excludeId)}
  ELSE getAvailableProviders

\* excludeId: excludeIds.size > 0 ? Array.from(excludeIds) : null
ExcludeIdOption == IF retry.excludeIds # {} THEN ArrayFrom(retry.excludeIds) ELSE JsNull

InitRetry ==
  /\ matcher = NoMatcher
  /\ http = NoRequest
  /\ apiKeys = <<>>
  /\ client = NoClient
  /\ checker = NoChecker
  /\ retry = [NoRetry EXCEPT !.pc = "select", !.attempt = 1]
  /\ providers = [p \in {1, 2} |-> NewProvider(1)]
  /\ sessions = <<>>
  /\ nextSessionId = 1
  /\ calls = [c \in CallIds |-> OffCall]
  /\ now = 0
  /\ faults = MaxFaults
  /\ upstream = <<>>
  /\ wire = <<>>
  /\ delivered = 0
  /\ parser = ParserInit
  /\ sse = NoStream
  /\ sink = <<>>

\* acquireProvider: selectProvider; 'No available provider' leaves the call
RetrySelect ==
  /\ retry.pc = "select"
  /\ IF Candidates(ExcludeIdOption) = {}
     THEN retry' = [retry EXCEPT !.pc = "done", !.outcome = "error",
                                 !.thrown = <<"No available provider">>]
     ELSE \E p \in weightedRandom(Candidates(ExcludeIdOption)) :
            retry' = [retry EXCEPT !.pc = "increment", !.provider = p]
  /\ UNCHANGED <<execVars, streamVars, emitVars, matcher, http, apiKeys, client, checker>>

\* acquireProvider: await Provider.incrementLoad(provider.id)
RetryIncrement ==
  /\ retry.pc = "increment"
  /\ providers' = [providers EXCEPT ![retry.provider] = incrementLoad(@)]
  /\ retry' = [retry EXCEPT !.pc = "operation", !.acquired = Append(@, retry.provider)]
  /\ UNCHANGED <<streamVars, emitVars, matcher, http, apiKeys, client, checker, sessions, nextSessionId,
                 calls, now, faults>>

\* the error the operation throws at an attempt
OperationError(attempt) == <<"operation failed", attempt>>

\* await operation(provider): it returns, or throws and catch sets lastError
Operation ==
  /\ retry.pc = "operation"
  /\ \/ retry' = [retry EXCEPT !.pc = "recordSuccess", !.ran = Append(@, retry.provider)]
     \/ retry' = [retry EXCEPT !.pc = "recordFailure", !.ran = Append(@, retry.provider),
                               !.lastError = OperationError(retry.attempt)]
  /\ UNCHANGED <<execVars, streamVars, emitVars, matcher, http, apiKeys, client, checker>>

RetryRecordSuccess ==
  /\ retry.pc = "recordSuccess"
  /\ providers' = [providers EXCEPT ![retry.provider] = recordSuccess(@)]
  /\ retry' = [retry EXCEPT !.pc = "releaseReturn"]
  /\ UNCHANGED <<streamVars, emitVars, matcher, http, apiKeys, client, checker, sessions, nextSessionId,
                 calls, now, faults>>

\* await this.releaseProvider(provider.id); return {result, provider}
RetryReleaseReturn ==
  /\ retry.pc = "releaseReturn"
  /\ providers' = [providers EXCEPT ![retry.provider] = decrementLoad(@)]
  /\ retry' = [retry EXCEPT !.pc = "done", !.outcome = "ok",
                            !.released = Append(@, retry.provider)]
  /\ UNCHANGED <<streamVars, emitVars, matcher, http, apiKeys, client, checker, sessions, nextSessionId,
                 calls, now, faults>>

\* catch: await this.recordFailure(provider.id, error.message)
RetryRecordFailure ==
  /\ retry.pc = "recordFailure"
  /\ providers' = [providers EXCEPT ![retry.provider] =
                     ApplyFailureUpdates(@, FailureUpdates(@, now))]
  /\ retry' = [retry EXCEPT !.pc = "releaseRetry"]
  /\ UNCHANGED <<streamVars, emitVars, matcher, http, apiKeys, client, checker, sessions, nextSessionId,
                 calls, now, faults>>

\* catch: releaseProvider, excludeIds.add(provider.id), attempt++; after the
\* last attempt throw lastError
RetryReleaseRetry ==
  /\ retry.pc = "releaseRetry"
  /\ providers' = [providers EXCEPT ![retry.provider] = decrementLoad(@)]
  /\ retry' = [retry EXCEPT !.excludeIds = @ \cup {retry.provider},
                            !.released = Append(@, retry.provider),
                            !.attempt = @ + 1,
                            !.pc = IF retry.attempt + 1 <= MaxRetries THEN "select" ELSE "done",
                            !.outcome = IF retry.attempt + 1 <= MaxRetries THEN @ ELSE "error",
                            !.thrown = IF retry.attempt + 1 <= MaxRetries THEN @
                                       ELSE retry.lastError]
  /\ UNCHANGED <<streamVars, emitVars, matcher, http, apiKeys, client, checker, sessions, nextSessionId,
                 calls, now, faults>>

\* the error of a store statement that rejects
StoreError == <<"store statement failed">>

\* a store statement of the call rejects: outside try and inside catch the
\* error leaves executeWithRetry, inside try catch takes it as the attempt's error
RetryFault ==
  /\ retry.pc \in {"select", "increment", "recordSuccess", "releaseReturn",
                   "recordFailure", "releaseRetry"}
  /\ faults > 0
  /\ faults' = faults - 1
  /\ retry' = IF retry.pc \in {"recordSuccess", "releaseReturn"}
              THEN [retry EXCEPT !.pc = "recordFailure", !.lastError = StoreError]
              ELSE [retry EXCEPT !.pc = "done", !.outcome = "error", !.thrown = StoreError]
  /\ UNCHANGED <<streamVars, emitVars, matcher, http, apiKeys, client, checker, providers, sessions,
                 nextSessionId, calls, now>>

NextRetry ==
  \/ RetrySelect \/ RetryIncrement \/ Operation
  \/ RetryRecordSuccess \/ RetryReleaseReturn
  \/ RetryRecordFailure \/ RetryReleaseRetry
  \/ RetryFault
  \/ Tick \/ RecoveryTick

SpecRetry == InitRetry /\ [][NextRetry]_vars

\* C20: within one executeWithRetry call a provider on which the operation
\* failed is excluded from every later attempt: the operation never runs twice
\* on the same provider
C20_NoProviderTwice ==
  /\ \A i, j \in DOMAIN retry.ran : i # j => retry.ran[i] # retry.ran[j]
  /\ retry.pc \in {"increment", "operation"} => retry.provider \notin retry.excludeIds

\* C21: in executeWithRetry every acquired provider is released exactly once,
\* on the success path and on every failed attempt, also when recordSuccess,
\* recordFailure or releaseProvider fails
C21_EveryAcquireReleased ==
  retry.pc = "done" => retry.released = retry.acquired

\* C22: when executeWithRetry ends without a successful attempt, after
\* max_retries failed attempts or with no provider left to select, it throws
\* the error of the last failed operation
C22_LastErrorSurfaced ==
  (/\ retry.pc = "done" /\ retry.outcome = "error"
   /\ faults = MaxFaults /\ retry.ran # <<>>)
    => retry.thrown = OperationError(Len(retry.ran))

\* C24: once the caller has disconnected during a streaming request, the
\* executor writes nothing more to the caller's sink and takes no further
\* object of the upstream before it releases the provider
C24_NoEmitAfterDisconnect ==
  [][~sse.connected => (sink' = sink /\ sse'.delivered = sse.delivered)]_vars

\* C25: a streaming request increments the session's message_count only if
\* at least one content (non-thought) chunk was delivered to the caller
C25_CountOnlyWithContent ==
  [][sessions'[sse.sessionId].message_count # sessions[sse.sessionId].message_count
       => \E i \in DOMAIN sink : sink[i].kind = "chunk" /\ ~sink[i].thought]_vars

(***************************************************************************)
(* The response specification: one run of curlStreamRequest over any       *)
(* response of the upstream, well formed or not: an HTTP status, a body    *)
(* cut into at most two chunks, and the exit code of curl (0, 7 for a      *)
(* transport failure, -2 when the process could not be spawned).           *)
(***************************************************************************)
\* {"a":]}: braces and quotes close, JSON.parse throws
ObjBad == <<"{", "\"", "a", "\"", ":", "]", "}">>

\* the bodies: bracketed arrays of objects, one of which may be bad, and bodies
\* that are no bracketed array (a bare object, a text, nothing, an open array)
Bodies ==
  {[objects |-> objs, framed |-> TRUE, text |-> Framed(objs)] :
     objs \in {<<ObjPlain>>, <<ObjPlain, ObjNested>>, <<ObjBad>>, <<ObjBad, ObjPlain>>,
               <<ObjPlain, ObjBad, ObjNested>>, <<ObjQuote, ObjBad, ObjBad, ObjBraces>>}}
  \cup
  {[objects |-> <<>>, framed |-> FALSE, text |-> t] :
     t \in {ObjPlain, <<"o", "o", "p", "s">>, <<>>, <<"[">> \o ObjPlain}}

InitResponse ==
  /\ AuxIdle
  /\ providers = <<>>
  /\ sessions = <<>>
  /\ nextSessionId = 1
  /\ calls = [c \in CallIds |-> OffCall]
  /\ now = 0
  /\ faults = 0
  /\ sse = NoStream
  /\ sink = <<>>
  /\ upstream \in Bodies
  /\ \E cuts \in CutSets(Len(upstream.text), 1) : wire = Split(upstream.text, cuts)
  /\ delivered = 0
  /\ \E status \in {200, 401, 500}, code \in {0, 7, -2} :
       parser = [ParserInit EXCEPT !.status = status, !.code = code]

\* the process could not be spawned: curl.on('error') fires
SpawnError ==
  /\ parser.code = -2
  /\ delivered = 0
  /\ ~parser.closed
  /\ parser' = onError(parser)
  /\ UNCHANGED <<auxVars, execVars, emitVars, upstream, wire, delivered>>

NextResponse == Data \/ Close \/ SpawnError

SpecResponse == InitResponse /\ [][NextResponse]_vars

\* C26: the streaming upstream call rejects whenever the transport fails, the
\* upstream answers with a status outside 2xx, or the body is not a bracketed
\* array of objects
C26_BadResponseRejects ==
  (/\ parser.closed
   /\ \/ parser.code # 0
      \/ parser.status \notin 200 .. 299
      \/ ~upstream.framed)
    => parser.rejected

\* the objects of the body that JSON.parse accepts, parsed, in order
WellFormed(objs) ==
  LET good == SelectSeq(objs, Parses)
  IN  [i \in 1 .. Len(good) |-> JSONparse(good[i])]

TokenMargin == 1

\* exp: now + Math.min(300, expTime - now) (300 s, ten units)
TokenLifetime == 10

\* the bound on the clock of the token specification
MaxClock == 12

\* how far after its answer the server's expirationTime lies: 30 s, 60 s, 360 s
ServerLifetimes == {1, 2, 12}

\* _buildBearerToken(tokenData) at time at: iat = now, exp = now + min(300, expTime - now)
buildBearerToken(tokenData, at) ==
  [present |-> TRUE, iat |-> at,
   exp |-> at + Min(TokenLifetime, tokenData.expirationTime - at),
   refresh |-> tokenData.refresh]

\* the same with the three assignments before the test of result.xsrfToken
refreshTokenAssignsFirst(cl, result, at) ==
  [cl EXCEPT !.tokenData = result,
             !.bearerToken = IF result.present THEN buildBearerToken(result, at) ELSE NoToken,
             !.tokenExpiresAt = result.expirationTime]

\* refreshToken with the answer of getoxsrf: with an xsrfToken the three fields
\* are assigned; without one (or when curlRequest throws) nothing is assigned
\* and the call throws
refreshToken(cl, result, at) ==
  IF result.present
  THEN [cl EXCEPT !.tokenData = result,
                  !.bearerToken = buildBearerToken(result, at),
                  !.tokenExpiresAt = result.expirationTime]
  ELSE cl

\* the negation of ensureToken's test: this.bearerToken && now < this.tokenExpiresAt - 30000
NeedsRefresh(cl, at) == ~(cl.bearerToken.present /\ at < cl.tokenExpiresAt - TokenMargin)

\* the same for a curlRequest that does not block
EventLoopAsync == TRUE

\* curlRequest runs curl with execSync: while a refresh is in flight the
\* process runs no other callback
EventLoopFree == client.inflight = {}

InitToken ==
  /\ matcher = NoMatcher
  /\ retry = NoRetry
  /\ http = NoRequest
  /\ apiKeys = <<>>
  /\ client = NoClient
  /\ checker = NoChecker
  /\ providers = <<>>
  /\ sessions = <<>>
  /\ nextSessionId = 1
  /\ calls = [c \in CallIds |-> OffCall]
  /\ now = 0
  /\ faults = 0
  /\ upstream = <<>>
  /\ wire = <<>>
  /\ delivered = 0
  /\ parser = ParserInit
  /\ sse = NoStream
  /\ sink = <<>>

tokenRest == <<streamVars, emitVars, matcher, retry, http, apiKeys, checker, providers, sessions,
               nextSessionId, calls, faults>>

\* a request reaches the process and is handed the cached client (getClient);
\* its handler runs when the event loop gets to it
Arrive(r) ==
  /\ client.requests[r].pc = "idle"
  /\ client' = [client EXCEPT !.requests[r].pc = "queued",
                              !.requests[r].waited =
                                 IF client.inflight # {} THEN client.refreshes ELSE 0]
  /\ UNCHANGED <<tokenRest, now>>

\* an outbound method: await this.ensureToken() and, with a token that passes
\* the test, the call with _getHeaders(); otherwise refreshToken starts
OutboundCall(r) ==
  /\ client.requests[r].pc = "queued"
  /\ EventLoopFree
  /\ client' = IF NeedsRefresh(client, now)
               THEN [client EXCEPT !.requests[r].pc = "refresh",
                                   !.requests[r].refreshed = TRUE,
                                   !.inflight = @ \cup {r},
                                   !.refreshes = @ + 1]
               ELSE [client EXCEPT !.requests[r].pc = "done",
                                   !.requests[r].sent = client.bearerToken,
                                   !.requests[r].sentAt = now]
  /\ UNCHANGED <<tokenRest, now>>

\* getoxsrf answers with an xsrfToken: the fields are assigned, ensureToken
\* returns and the outbound call is sent with the new token
RefreshOk(r) ==
  /\ r \in client.inflight
  /\ \E life \in ServerLifetimes :
       LET result == [present |-> TRUE, expirationTime |-> now + life,
                      refresh |-> client.refreshes]
           cl == refreshToken(client, result, now)
       IN  client' = [cl EXCEPT !.inflight = @ \ {r},
                                !.failed = FALSE,
                                !.requests[r].pc = "done",
                                !.requests[r].sent = cl.bearerToken,
                                !.requests[r].sentAt = now]
  /\ UNCHANGED <<tokenRest, now>>

\* curlRequest throws or the answer has no xsrfToken: refreshToken throws, the
\* outbound method rejects before anything is sent
RefreshFail(r) ==
  /\ r \in client.inflight
  /\ client' = [refreshToken(client, NoTokenData, now) EXCEPT
                  !.inflight = @ \ {r},
                  !.failed = TRUE,
                  !.requests[r].pc = "failed"]
  /\ UNCHANGED <<tokenRest, now>>

\* Date.now() moves on, also while curl runs
Tock ==
  /\ now < MaxClock
  /\ now' = now + 1
  /\ UNCHANGED <<tokenRest, client>>

NextToken ==
  \/ \E r \in RequestIds : Arrive(r) \/ OutboundCall(r) \/ RefreshOk(r) \/ RefreshFail(r)
  \/ Tock

SpecToken == InitToken /\ [][NextToken]_vars

\* C28: no outbound call is sent with a bearer token that is absent or whose exp
\* claim is less than 30 s after the time of the call
C28_NoStaleTokenSent ==
  \A r \in RequestIds :
    client.requests[r].pc = "done"
      => /\ client.requests[r].sent.present
         /\ client.requests[r].sent.exp - client.requests[r].sentAt >= TokenMargin

\* C29 as stated: at most one refresh is in flight, and a request that arrived
\* while a refresh was pending never calls refreshToken itself
C29_WaiterNeverRefreshes ==
  /\ Cardinality(client.inflight) <= 1
  /\ \A r \in RequestIds :
       client.requests[r].waited # 0 => ~client.requests[r].refreshed

\* request r arrived while a refresh was pending, that refresh built the token
\* the client holds, and the token passes ensureToken's test
WaitedForToken(r) ==
  /\ client.requests[r].waited # 0
  /\ client.bearerToken.present
  /\ client.bearerToken.refresh = client.requests[r].waited
  /\ now < client.tokenExpiresAt - TokenMargin

\* C29: at most one refresh is in flight at any time; a request that arrived
\* while a refresh was pending runs after it and, when that refresh built a
\* token that is still more than 30 s from the server's expirationTime, starts
\* no refresh and sends its call with that token
C29_SingleFlight ==
  /\ [](Cardinality(client.inflight) <= 1)
  /\ [][\A r \in RequestIds :
          (/\ client.requests[r].pc = "queued"
           /\ client'.requests[r].pc # "queued"
           /\ WaitedForToken(r))
            => /\ client'.requests[r].pc = "done"
               /\ ~client'.requests[r].refreshed
               /\ client'.requests[r].sent = client.bearerToken
               /\ client'.refreshes = client.refreshes]_vars

\* the second request arrived during the first refresh and has sent its call
\* with the token of that refresh, without a refresh of its own
C29_Witness ==
  \E r \in RequestIds :
    /\ client.requests[r].pc = "done"
    /\ client.requests[r].waited = 1
    /\ ~client.requests[r].refreshed
    /\ client.requests[r].sent.refresh = 1
    /\ client.refreshes = 1

\* C30: a failed refresh leaves bearerToken, tokenData and tokenExpiresAt as
\* they were and fails the operation that called it; the next outbound call on
\* the client calls refreshToken again
C30_FailedRefreshKeepsState ==
  /\ [][\A r \in RequestIds :
          (r \in client.inflight /\ r \notin client'.inflight /\ client'.failed)
            => /\ client'.bearerToken = client.bearerToken
               /\ client'.tokenData = client.tokenData
               /\ client'.tokenExpiresAt = client.tokenExpiresAt
               /\ client'.requests[r].pc = "failed"
               /\ client'.requests[r].sent = NoToken]_vars
  /\ [][\A r \in RequestIds :
          (/\ client.failed
           /\ client.requests[r].pc = "queued"
           /\ client'.requests[r].pc # "queued")
            => /\ client'.requests[r].pc = "refresh"
               /\ client'.refreshes = client.refreshes + 1]_vars

\* a refresh of a client that held a token has failed, the token is still
\* held, and the next request is inside refreshToken
C30_Witness ==
  /\ client.failed
  /\ client.bearerToken.present
  /\ \E r, q \in RequestIds :
       /\ client.requests[r].pc = "failed"
       /\ client.requests[q].pc = "refresh"

\* C31: once a session row has a gemini_session_id, no step of an executor call
\* writes a different value over it
C31_UpstreamSessionIdKept ==
  [][\A id \in DOMAIN sessions \cap DOMAIN sessions' :
       sessions[id].gemini_session_id # NoGeminiSession
         => sessions'[id].gemini_session_id = sessions[id].gemini_session_id]_vars

\* C32: the sessions of one user with status active never number more than
\* max_per_user
C32_ActiveWithinCap ==
  \A u \in Users : Cardinality(UserActive(sessions, u)) <= MaxPerUser

\* C33: total_requests and failed_requests of a provider never decrease, and
\* every recordSuccess or recordFailure that completes adds exactly 1 to
\* total_requests
C33_CountersMonotonic ==
  [][\A p \in Providers :
       /\ providers'[p].total_requests >= providers[p].total_requests
       /\ providers'[p].failed_requests >= providers[p].failed_requests
       /\ \A c \in CallIds :
            (/\ calls[c].providerId = p
             /\ \/ calls[c].pc = "recordSuccess" /\ calls'[c].pc = "log"
                \/ calls[c].pc = "catchUpdate" /\ calls'[c].pc = "catchLog")
              => providers'[p].total_requests = providers[p].total_requests + 1]_vars

(***************************************************************************)
(* The emission specification with fairness: the steps of the process      *)
(* itself (the image fetch, whose curlRequest calls end after 120 s at the *)
(* latest, and the store statements of step 7) are taken when they can be; *)
(* the upstream is not bound to deliver, to close or to fail, and          *)
(* curlStreamRequest sets no timer and passes curl no time limit.          *)
(***************************************************************************)
SpecEmitFair == SpecEmit /\ WF_vars(Image) /\ WF_vars(Finish)

\* C34: every streaming upstream call eventually ends, the executor call with
\* it, whether or not the upstream answers or closes the stream
C34_UpstreamCallEnds == <>(sse.pc \in {"done", "failed"})

\* C35: no call records more than one outcome for the provider it acquired,
\* neither two of a kind nor a success and a failure, and a call that returned
\* its response has recorded its success
C35_ExactlyOneOutcome ==
  \A c \in CallIds :
    /\ calls[c].successes + calls[c].failures <= 1
    /\ (calls[c].pc = "done" /\ calls[c].outcome = "ok") => calls[c].successes = 1

(***************************************************************************)
(* The health specification: one provider with two slots, three requests,  *)
(* the recovery timer, the clock and the administrator's deactivate route, *)
(* with PROVIDER_FAILURE_THRESHOLD = 2, so that a failure below the        *)
(* threshold exists.  A request is taken in three steps: acquireProvider;  *)
(* the upstream's answer with releaseProvider and recordSuccess, or with   *)
(* releaseProvider and the read of recordFailure; the write of             *)
(* recordFailure.  The process takes its own steps when it can, time       *)
(* passes, every upstream call ends; the administrator is not bound to act.*)
(***************************************************************************)
\* config.provider.failureThreshold in this specification
PoolFailureThreshold == 2

HealthPool == {1}

InitHealth ==
  /\ AuxIdle
  /\ providers = [p \in HealthPool |-> NewProvider(2)]
  /\ sessions = <<>>
  /\ nextSessionId = 1
  /\ calls = [c \in CallIds |-> IdleCall]
  /\ now = 0
  /\ faults = 0
  /\ upstream = <<>>
  /\ wire = <<>>
  /\ delivered = 0
  /\ parser = ParserInit
  /\ sse = NoStream
  /\ sink = <<>>

\* acquireProvider: selectProvider over the rows of getAvailableProviders, then
\* incrementLoad; without a row selectProvider throws and the call ends
Acquire(c) ==
  /\ calls[c].pc = "idle"
  /\ IF getAvailableProviders = {}
     THEN /\ calls' = [calls EXCEPT ![c] = Finished(@, "error")]
          /\ UNCHANGED providers
     ELSE \E p \in weightedRandom(getAvailableProviders) :
            /\ providers' = [providers EXCEPT ![p] = incrementLoad(@)]
            /\ calls' = [calls EXCEPT ![c].pc = "sendMessage", ![c].providerId = p,
                                      ![c].acquired = @ + 1]
  /\ UNCHANGED <<restVars, sessions, nextSessionId, now, faults>>

\* the upstream answers: releaseProvider and recordSuccess
Succeed(c) ==
  /\ calls[c].pc = "sendMessage"
  /\ providers' = [providers EXCEPT ![calls[c].providerId] = recordSuccess(decrementLoad(@))]
  /\ calls' = [calls EXCEPT ![c] =
       Finished([@ EXCEPT !.released = @ + 1, !.successes = @ + 1], "ok")]
  /\ UNCHANGED <<restVars, sessions, nextSessionId, now, faults>>

\* the upstream fails: releaseProvider, then recordFailure reads the row.  A
\* failure whose cooldown would end after the last modelled instant is not taken.
FailRead(c) ==
  /\ calls[c].pc = "sendMessage"
  /\ LET row == decrementLoad(providers[calls[c].providerId])
         u == FailureUpdatesAt(row, now, PoolFailureThreshold)
     IN  /\ u.setCooldown => u.cooldown_until <= MaxTime
         /\ providers' = [providers EXCEPT ![calls[c].providerId] = row]
         /\ calls' = [calls EXCEPT ![c].pc = "catchUpdate", ![c].released = @ + 1,
                                   ![c].provider = row, ![c].readAt = now]
  /\ UNCHANGED <<restVars, sessions, nextSessionId, now, faults>>

\* recordFailure writes the updates it computed from the row it read
FailWrite(c) ==
  /\ calls[c].pc = "catchUpdate"
  /\ providers' = [providers EXCEPT ![calls[c].providerId] =
       ApplyFailureUpdates(@, FailureUpdatesAt(calls[c].provider, calls[c].readAt,
                                               PoolFailureThreshold))]
  /\ calls' = [calls EXCEPT ![c] = Finished([@ EXCEPT !.failures = @ + 1], "error")]
  /\ UNCHANGED <<restVars, sessions, nextSessionId, now, faults>>

\* POST /admin/providers/:id/deactivate
Deactivate(p) ==
  /\ providers[p].status # "inactive"
  /\ providers' = [providers EXCEPT ![p].status = "inactive"]
  /\ UNCHANGED <<restVars, sessions, nextSessionId, calls, now, faults>>

NextHealth ==
  \/ \E c \in CallIds : Acquire(c) \/ Succeed(c) \/ FailRead(c) \/ FailWrite(c)
  \/ \E p \in HealthPool : Deactivate(p)
  \/ Tick
  \/ RecoveryTick

SpecHealth ==
  /\ InitHealth
  /\ [][NextHealth]_vars
  /\ WF_vars(Tick)
  /\ WF_vars(RecoveryTick)
  /\ WF_vars(\E c \in CallIds : Succeed(c) \/ FailRead(c))
  /\ WF_vars(\E c \in CallIds : FailWrite(c))

\* status active and health_score at or above the health threshold
Selectable(p) ==
  providers[p].status = "active" /\ providers[p].health_score >= HealthThreshold

\* out of the candidate set because of recorded failures, short of failed
DroppedOut(p) ==
  \/ providers[p].status = "cooling"
  \/ providers[p].status = "active" /\ providers[p].health_score < HealthThreshold

\* C36: a provider that dropped out of the candidate set because of recorded
\* failures eventually is selectable again, unless it reaches failed or an
\* administrator deactivates it
C36_DroppedOutRecovers ==
  \A p \in HealthPool :
    DroppedOut(p) ~> (Selectable(p) \/ providers[p].status \in {"failed", "inactive"})

\* C37: selectProvider never returns a provider whose status is cooling, and a
\* provider in status cooling eventually leaves it
C37_CoolingNotSelectedAndLeaves ==
  /\ [][\A c \in CallIds :
          (calls[c].pc = "idle" /\ calls'[c].pc = "sendMessage")
            => providers[calls'[c].providerId].status # "cooling"]_vars
  /\ \A p \in HealthPool :
       (providers[p].status = "cooling") ~> (providers[p].status # "cooling")

\* the provider was cooling while a request was waiting to start, has been
\* recovered by a tick and has then been acquired by a request
C37_Witness ==
  \E p \in HealthPool, c \in CallIds :
    /\ calls[c].pc = "sendMessage"
    /\ calls[c].providerId = p
    /\ providers[p].status = "active"
    /\ providers[p].health_score = 50
    /\ providers[p].failed_requests >= PoolFailureThreshold
    /\ providers[p].cooldown_until # NULL

\* C38: no step of the scheduler (recordFailure, recordSuccess, a recovery tick)
\* changes the status of a provider that an administrator deactivated
C38_InactiveStaysInactive ==
  [][\A p \in HealthPool :
       providers[p].status = "inactive" => providers'[p].status = "inactive"]_vars

(***************************************************************************)
(* The expiry specification: one request (matchOrCreate, then              *)
(* recordMessage on the session it returned) over a store whose sessions   *)
(* were last used a full TTL before instant 0, or at instant 0; the clock  *)
(* and the session sweep of the health checker run beside it.              *)
(***************************************************************************)
\* a stored row whose last use was session_ttl before e
Aged(row, e) == [row EXCEPT !.expires_at = e, !.last_accessed_at = e - SessionTtl]

AgedTables ==
  {[id \in DOMAIN t |-> Aged(t[id], e)] : t \in StoredTables, e \in {0, SessionTtl}}

\* Session.cleanupExpired: DELETE ... WHERE expires_at < NOW() OR status IN (...)
cleanupExpired(table, t) ==
  LET kept == {id \in DOMAIN table : ~(\/ table[id].expires_at < t
                                       \/ table[id].status \in {"expired", "migrated"})}
  IN  [id \in kept |-> table[id]]

InitExpiry ==
  /\ retry = NoRetry
  /\ http = NoRequest
  /\ apiKeys = <<>>
  /\ client = NoClient
  /\ checker = NoChecker
  /\ providers = [p \in {1, 2} |-> NewProvider(1)]
  /\ sessions \in AgedTables
  /\ nextSessionId = 5
  /\ calls = [c \in CallIds |-> OffCall]
  /\ now = 0
  /\ faults = 0
  /\ upstream = <<>>
  /\ wire = <<>>
  /\ delivered = 0
  /\ parser = ParserInit
  /\ sse = NoStream
  /\ sink = <<>>
  /\ \E u \in Users, p \in {1, 2}, m \in MatcherConversations :
       matcher = [NoMatcher EXCEPT !.pc = "first", !.userId = u, !.providerId = p,
                                   !.messages = m]

\* step 8 of the executor on the session matchOrCreate returned: recordMessage
MatcherRecordMessage ==
  /\ matcher.pc = "second"
  /\ sessions' = incrementMessageCount(sessions, matcher.first.id, now)
  /\ matcher' = [matcher EXCEPT !.pc = "end"]
  /\ UNCHANGED <<streamVars, emitVars, retry, http, apiKeys, client, checker, providers,
                 nextSessionId, calls, now, faults>>

\* HealthChecker.start: the session cleanup interval fires
Sweep ==
  /\ sessions' = cleanupExpired(sessions, now)
  /\ UNCHANGED <<restVars, providers, nextSessionId, calls, now, faults>>

NextExpiry == MatchFirst \/ MatcherRecordMessage \/ Sweep \/ Tick

SpecExpiry == InitExpiry /\ [][NextExpiry]_vars

\* C39: matchOrCreate returns no existing session whose expires_at is earlier
\* than the current time, and no step of a request moves the expires_at of a
\* session that is past it
C39_ExpiredNotMatched ==
  /\ [][(matcher.pc = "first" /\ matcher'.pc = "second" /\ ~matcher'.first.isNew)
          => sessions[matcher'.first.id].expires_at >= now]_vars
  /\ [][\A id \in DOMAIN sessions \cap DOMAIN sessions' :
          sessions[id].expires_at < now
            => sessions'[id].expires_at = sessions[id].expires_at]_vars

(***************************************************************************)
(* core/health-checker.js: start, scheduleDaily and stop, with the timers  *)
(* of the runtime.  A timer is its task and its kind; each task runs at    *)
(* most MaxRuns times in the model.                                        *)
(***************************************************************************)
\* the bound on the runs of one task
MaxRuns == 2

Interval(task) == [task |-> task, kind |-> "interval"]
Timeout(task) == [task |-> task, kind |-> "timeout"]

InitChecker ==
  /\ matcher = NoMatcher
  /\ retry = NoRetry
  /\ http = NoRequest
  /\ apiKeys = <<>>
  /\ client = NoClient
  /\ checker = NoChecker
  /\ providers = <<>>
  /\ sessions = <<>>
  /\ nextSessionId = 1
  /\ calls = [c \in CallIds |-> OffCall]
  /\ now = 0
  /\ faults = 0
  /\ upstream = <<>>
  /\ wire = <<>>
  /\ delivered = 0
  /\ parser = ParserInit
  /\ sse = NoStream
  /\ sink = <<>>

checkerRest == <<execVars, streamVars, emitVars, matcher, retry, http, apiKeys, client>>

\* start(): two setInterval handles are pushed to this.timers; scheduleDaily is
\* called twice and registers a setTimeout each time, whose handle is dropped
StartChecker ==
  /\ checker.pc = "new"
  /\ checker' = [checker EXCEPT
       !.pc = "started",
       !.timers = {Interval("sweep"), Interval("recovery")},
       !.registered = {Interval("sweep"), Interval("recovery"),
                       Timeout("prune"), Timeout("reset")}]
  /\ UNCHANGED checkerRest

\* an interval of the runtime fires: its task runs
FireInterval(task) ==
  /\ Interval(task) \in checker.registered
  /\ checker.runs[task] < MaxRuns
  /\ checker' = [checker EXCEPT !.runs[task] = @ + 1]
  /\ UNCHANGED checkerRest

\* the timeout of scheduleDaily fires: callback(), then
\* this.timers.push(setInterval(callback, 24 h))
FireTimeout(task) ==
  /\ Timeout(task) \in checker.registered
  /\ checker.runs[task] < MaxRuns
  /\ checker' = [checker EXCEPT
       !.runs[task] = @ + 1,
       !.registered = (@ \ {Timeout(task)}) \cup {Interval(task)},
       !.timers = @ \cup {Interval(task)}]
  /\ UNCHANGED checkerRest

\* stop(): clearInterval and clearTimeout on every handle of this.timers;
\* this.timers = []
StopChecker ==
  /\ checker.pc = "started"
  /\ checker' = [checker EXCEPT !.pc = "stopped",
                                !.registered = @ \ checker.timers,
                                !.timers = {}]
  /\ UNCHANGED checkerRest

NextChecker ==
  \/ StartChecker
  \/ \E task \in Tasks : FireInterval(task) \/ FireTimeout(task)
  \/ StopChecker

SpecChecker == InitChecker /\ [][NextChecker]_vars

\* C40: after stop() has returned no task runs and no timer is registered
C40_NothingAfterStop ==
  [][checker.pc = "stopped"
       => /\ checker'.runs = checker.runs
          /\ checker'.registered \subseteq checker.registered]_vars

====
